---- MODULE Spec2Model ----
(***************************************************************************)
(* MathMotion: job repository, submission and status endpoints, processing *)
(* pipelines, code validation, the Manim renderer, the rate limiter, the    *)
(* prompt cache, the timeout detector, the polling hook and the gallery    *)
(* cache of the browser.                                                   *)
(*                                                                         *)
(* Several specifications share the variables below:                       *)
(*   RepoSpec    the JobRepository operations called in any order          *)
(*   Spec        the submission endpoints and their detached pipelines     *)
(*   PollSpec    Spec with the status endpoint and the clock               *)
(*   RenderSpec  ManimRendererService.renderCode, one call at a time       *)
(*   ValidSpec   the generation and repair services on LLM responses       *)
(*   RateSpec    the rate limiter's operations and the clock               *)
(*   PostSpec    the submission endpoint behind the rate limiter           *)
(*   CacheSpec   the prompt cache's operations and the clock               *)
(*   FullCacheSpec  the prompt cache filled to its capacity                *)
(*   HitSpec     the submission endpoint over a filled prompt cache        *)
(*   DetectSpec  the timeout detector on jobs of every status, and a clock *)
(*   HookSpec    the polling hook, its intervals and fetches, with         *)
(*               fairness for the browser's callbacks                      *)
(*   GalleryCacheSpec  the gallery cache's operations on its stored item   *)
(*   GallerySpec the gallery page's click handler and the jobs it submits  *)
(*   PromptSpec  the submission endpoint for prompts of all kinds          *)
(*   DbSpec      getDatabase and getClient and the connection attempt      *)
(*   GalleryFullSpec  the gallery cache's setCachedJob on a full item      *)
(***************************************************************************)
EXTENDS Integers, Sequences, FiniteSets, TLC

VARIABLES
    jobs,      \* the "jobs" collection: a sequence of documents, _id = index
    pending,   \* repository calls that have read and validated, write not yet applied
    resp,      \* the last completed call (endpoint or repository) and its outcome
    pipe,      \* per job: the detached pipeline's position and locals
    now,       \* Date.now(), in milliseconds
    fs,        \* the renderer's view of the file system and its call in progress
    svc,       \* the last call of a code service: its LLM response and its result
    cache,     \* the prompt cache: its entries
    limiter,   \* the rate limiter: its records and the time of its last cleanup
    hook,      \* the polling hook of a result view: its state, refs and callbacks
    localStorage, \* the browser's item "mathmotion_gallery_cache"
    mongo      \* the process's MongoDB connection: its memo and its callers

vars == <<jobs, pending, resp, pipe, now, fs, svc, cache, limiter, hook,
         localStorage, mongo>>

----------------------------------------------------------------------------
(* Bounds of the model *)

MaxPending  == 1      \* repository calls between their read and their write
MaxJobs     == 4      \* documents in Spec
MaxLegacy   == 1      \* jobs submitted through the earlier version of the route
MaxNew      == 1      \* jobs submitted with a prompt alone
MaxTicks    == 2      \* clock steps
MaxPollJobs == 2      \* documents in PollSpec
MaxFaulty   == 1      \* jobs whose pipeline meets database errors
MaxWindows  == 3      \* rate-limit windows the clock runs through in RateSpec
MaxPostTicks == 1     \* rate-limit windows that run out in PostSpec
MaxHits     == 1      \* hits counted on one cache entry
MaxEffects   == 2
MaxFetches   == 2
MaxRejected  == 1
MaxDbCalls   == 5     \* calls of getDatabase and getClient in DbSpec

----------------------------------------------------------------------------
(* JavaScript values *)

\* a missing numeric property (undefined) and the result of undefined + 1
UndefN == 0 - 1
NaN    == 0 - 2
\* a missing string property
Undef  == "undefined"
\* a missing id (parentJobId, originalFailedJobId, cachedFromJobId)
NoId   == 0

IsNum(x) == x >= 0

\* a >= b, a < b and a + 1 on numbers that may be undefined or NaN
JsGE(a, b)  == IsNum(a) /\ IsNum(b) /\ a >= b
JsLT(a, b)  == IsNum(a) /\ IsNum(b) /\ a < b
JsPlus1(a)  == IF IsNum(a) THEN a + 1 ELSE NaN

----------------------------------------------------------------------------
(* Shared types and constants *)

JobStatus == {"queued", "generating_code", "rendering", "done", "failed"}

\* the status value of the superseded type, still used by the repository
LegacyGenerating == "generating"

AllStatus == JobStatus \cup {LegacyGenerating}

TERMINAL_JOB_STATES == {"done", "failed"}

JOB_TIMEOUT_MS_short ==
    [queued |-> 30 * 1000, generating_code |-> 90 * 1000, rendering |-> 90 * 1000]

JOB_TIMEOUT_MS ==
    [queued |-> 30 * 1000, generating_code |-> 3 * 60 * 1000, rendering |-> 90 * 1000]

\* code as the validators and the renderer see it: which patterns match
NoCode ==
    [present |-> FALSE, imp |-> FALSE, scenes |-> 0, construct |-> FALSE,
     balanced |-> TRUE, denied |-> FALSE, unauth |-> FALSE, call |-> FALSE,
     danger |-> FALSE, camera |-> FALSE, quality |-> FALSE, longrun |-> FALSE]

NoError == [message |-> Undef, logs |-> Undef, stage |-> Undef, type |-> Undef]

\* a job document; properties the code never writes are left out
NewDoc(status, route) ==
    [status |-> status, prompt |-> <<"p">>, stylePreset |-> <<"Classic">>,
     queuedAt |-> UndefN, attemptNumber |-> UndefN, maxAttempts |-> UndefN,
     autoFixAttemptCount |-> UndefN, parentJobId |-> NoId,
     isAutoFixJob |-> FALSE, originalFailedJobId |-> NoId,
     code |-> NoCode, videoUrl |-> Undef, error |-> NoError,
     progress |-> 0, progressMessage |-> Undef,
     isCacheHit |-> FALSE, cachedFromJobId |-> NoId, route |-> route]

----------------------------------------------------------------------------
(* JobRepository *)

Ids(js) == 1..Len(js)

\* the Job the repository hands out: only these properties of the document
documentToJob(id, doc) ==
    [id |-> id, status |-> doc.status, prompt |-> doc.prompt,
     stylePreset |-> doc.stylePreset, code |-> doc.code,
     videoUrl |-> doc.videoUrl, error |-> doc.error,
     progress |-> doc.progress, progressMessage |-> doc.progressMessage,
     queuedAt |-> UndefN, codeGenerationStartedAt |-> UndefN,
     renderingStartedAt |-> UndefN, attemptNumber |-> UndefN,
     maxAttempts |-> UndefN, autoFixAttemptCount |-> UndefN,
     parentJobId |-> NoId]

NoJob == [documentToJob(NoId, NewDoc(Undef, Undef)) EXCEPT !.id = NoId]

findJobById(js, id) ==
    IF id \in Ids(js) THEN documentToJob(id, js[id]) ELSE NoJob

createJob(js, doc) == Append(js, doc)

validTransitions ==
    [queued |-> {LegacyGenerating, "failed"},
     generating |-> {"rendering", "failed"},
     rendering |-> {"done", "failed"},
     done |-> {},
     failed |-> {}]

isValidTransition_any(currentStatus, newStatus) == TRUE

isValidTransition(currentStatus, newStatus) ==
    IF currentStatus \in DOMAIN validTransitions
    THEN newStatus \in validTransitions[currentStatus]
    ELSE FALSE

\* updateJobStatus up to its write: "null", "throw" or "write"
updateJobStatusCheck(js, id, status) ==
    IF id \notin Ids(js) THEN "null"
    ELSE IF ~isValidTransition(findJobById(js, id).status, status) THEN "throw"
    ELSE "write"

\* the $set of updateJobStatus
updateJobStatusWrite(js, id, status, progress, progressMessage) ==
    [js EXCEPT ![id] =
        [@ EXCEPT !.status = status,
                  !.progress = IF progress # UndefN THEN progress ELSE @,
                  !.progressMessage =
                      IF progressMessage # Undef THEN progressMessage ELSE @]]

\* updateJobWithCode up to its write: "null" or "write"
updateJobWithCodeCheck(js, id) ==
    IF id \notin Ids(js) THEN "null"
    ELSE IF findJobById(js, id).status # LegacyGenerating THEN "null"
    ELSE "write"

updateJobWithCodeWrite(js, id, code) ==
    [js EXCEPT ![id] = [@ EXCEPT !.code = code]]

completeJobWithVideo_nourl(js, id, videoUrl) ==
    IF id \notin Ids(js) THEN js
    ELSE [js EXCEPT ![id] = [@ EXCEPT !.status = "done", !.progress = 100]]

completeJobWithVideo(js, id, videoUrl) ==
    IF id \notin Ids(js) THEN js
    ELSE [js EXCEPT ![id] =
            [@ EXCEPT !.status = "done", !.videoUrl = videoUrl, !.progress = 100]]

DefaultMessage == "Animation generation failed"

DefaultLogs == "Manim encountered an error during rendering"

\* the repository's failJob takes no error type: the stored error has none
failJob(js, id, errorMessage, errorLogs, errorStage) ==
    IF id \notin Ids(js) THEN js
    ELSE [js EXCEPT ![id] =
            [@ EXCEPT !.status = "failed",
                      !.error =
                          [message |-> IF errorMessage # Undef
                                       THEN errorMessage ELSE DefaultMessage,
                           logs |-> IF errorLogs # Undef
                                    THEN errorLogs ELSE DefaultLogs,
                           stage |-> IF errorStage # Undef
                                     THEN errorStage ELSE "rendering",
                           type |-> Undef],
                      !.progress = 0]]

----------------------------------------------------------------------------
(* Code services: ManimCodeGeneratorService and AutoFixGeneratorService     *)
(*                                                                          *)
(* A code text is the record of the patterns that match it:                 *)
(*   imp        "from manim import *"                                       *)
(*   scenes     the number of "class <Name>(Scene):" declarations           *)
(*   construct  "def construct(self):"                                      *)
(*   balanced   as many "(" as ")"                                          *)
(*   denied     an import of os, sys, subprocess, socket, requests, ...     *)
(*   unauth     another import statement that does not name manim           *)
(*   call       eval(, exec(, compile(, __import__(, open(, ...             *)
(*   danger     os.x / sys.x / subprocess.x, with open(, lambda ... eval    *)
(*   camera     .camera.frame, .camera.animate, camera.add, self.camera =   *)
(*   quality    -qm, -qh, frame_rate =, pixel_height, pixel_width           *)
(*   longrun    a run_time above 5                                          *)

Success(code) == [success |-> TRUE, type |-> Undef, details |-> Undef, code |-> code]
Failure(type, details) ==
    [success |-> FALSE, type |-> type, details |-> details, code |-> NoCode]

validateImports(code) ==
    IF code.denied THEN "Forbidden import detected"
    ELSE IF code.unauth THEN "Unauthorized import detected"
    ELSE "ok"

validateForbiddenCalls(code) ==
    IF code.call THEN "Forbidden function call detected" ELSE "ok"

validateDangerousPatterns(code) ==
    IF code.danger THEN "Potentially unsafe pattern detected" ELSE "ok"

validateOutputConstraints(code) ==
    IF code.camera THEN "camera manipulation not allowed"
    ELSE IF code.quality THEN "quality override not allowed"
    ELSE IF code.longrun THEN "step duration exceeds maximum"
    ELSE "ok"

validateAndCleanCode(code) ==
    IF ~code.imp THEN Failure("validation", "missing import")
    ELSE IF code.scenes = 0 THEN Failure("validation", "no Scene class")
    ELSE IF code.scenes > 1 THEN Failure("validation", "multiple Scene classes")
    ELSE IF ~code.construct THEN Failure("validation", "missing construct")
    ELSE IF ~code.balanced THEN Failure("validation", "unbalanced parentheses")
    ELSE IF validateImports(code) # "ok"
         THEN Failure("validation", validateImports(code))
    ELSE IF validateForbiddenCalls(code) # "ok"
         THEN Failure("validation", validateForbiddenCalls(code))
    ELSE IF validateDangerousPatterns(code) # "ok"
         THEN Failure("validation", validateDangerousPatterns(code))
    ELSE IF validateOutputConstraints(code) # "ok"
         THEN Failure("validation", validateOutputConstraints(code))
    ELSE Success(code)

\* transport: what the call to the LLM gateway came to
generateCode(transport, code) ==
    IF transport = "429" THEN Failure("rate_limit", "rate limit")
    ELSE IF transport \in {"http_error", "empty"} THEN Failure("api_error", transport)
    ELSE IF transport = "exception" THEN Failure("network", "exception")
    ELSE validateAndCleanCode(code)

\* AutoFixGeneratorService.validateCode
validateCode(code) ==
    IF code.scenes = 0 THEN "Code must contain a Scene class definition"
    ELSE IF ~code.construct THEN "Scene class must have a construct method"
    ELSE IF code.camera THEN "Code contains forbidden camera manipulation"
    ELSE "ok"

generateFixedCode(transport, code) ==
    IF transport = "429" THEN Failure("rate_limit", "rate limit")
    ELSE IF transport = "http_error" THEN Failure("api_error", transport)
    ELSE IF transport = "fetch_exception" THEN Failure("network", "exception")
    ELSE IF transport \in {"exception", "empty"} THEN Failure("unknown", "exception")
    ELSE IF validateCode(code) # "ok" THEN Failure("validation", validateCode(code))
    ELSE Success(code)

Transports == {"ok", "429", "http_error", "empty", "exception", "fetch_exception"}

\* the code texts an LLM may answer with
Responses ==
    [present : {TRUE}, imp : BOOLEAN, scenes : 0..2, construct : BOOLEAN,
     balanced : BOOLEAN, denied : BOOLEAN, unauth : BOOLEAN, call : BOOLEAN,
     danger : BOOLEAN, camera : BOOLEAN, quality : BOOLEAN, longrun : BOOLEAN]

----------------------------------------------------------------------------
(* RateLimiter: per-address request counts in fixed windows                 *)

\* RATE_LIMIT_CONFIGS.jobSubmission
maxRequests == 10

windowMs == 5 * 60 * 1000

CLEANUP_INTERVAL_MS == 10 * 60 * 1000

\* the addresses getClientIP yields; the second is its fallback
ClientIPs == {"10.0.0.1", "127.0.0.1"}

\* no record in the store under a key
NoRecord == [count |-> UndefN, resetTime |-> UndefN]

\* the limiter of a process started at time 0
NoLimiter == [store |-> [ip \in ClientIPs |-> NoRecord], lastCleanup |-> 0]

\* Math.ceil(ms / 1000) and Math.max
CeilSeconds(ms) == IF ms <= 0 THEN 0 - ((0 - ms) \div 1000)
                   ELSE (ms + 999) \div 1000

Max(a, b) == IF a >= b THEN a ELSE b

\* cleanup(now): drops the records whose window is over
limiterCleanup(l, t) ==
    [store |-> [ip \in ClientIPs |->
                  IF l.store[ip] # NoRecord /\ t >= l.store[ip].resetTime
                  THEN NoRecord ELSE l.store[ip]],
     lastCleanup |-> t]

currentRecord_late(record, t) ==
    IF record = NoRecord \/ t > record.resetTime
    THEN [count |-> 0, resetTime |-> t + windowMs]
    ELSE record

\* the record the call counts against: a new one when there is none or the
\* window is over
currentRecord(record, t) ==
    IF record = NoRecord \/ t >= record.resetTime
    THEN [count |-> 0, resetTime |-> t + windowMs]
    ELSE record

LimitResult(allowed, remaining, resetTime, retryAfter) ==
    [allowed |-> allowed, remaining |-> remaining, resetTime |-> resetTime,
     retryAfter |-> retryAfter]

countExceeded_over(record) == record.count > maxRequests

countExceeded(record) == record.count >= maxRequests

\* checkLimit(ip, 'jobSubmission') at time t: the result and the limiter after
checkLimit(l, ip, t) ==
    LET l1 == IF t - l.lastCleanup > CLEANUP_INTERVAL_MS
              THEN limiterCleanup(l, t) ELSE l
        record == currentRecord(l1.store[ip], t)
    IN  IF countExceeded(record)
        THEN [result |-> LimitResult(FALSE, 0, record.resetTime,
                                     CeilSeconds(record.resetTime - t)),
              limiter |-> [l1 EXCEPT !.store[ip] = record]]
        ELSE [result |-> LimitResult(TRUE,
                                     Max(0, maxRequests - (record.count + 1)),
                                     record.resetTime, UndefN),
              limiter |-> [l1 EXCEPT !.store[ip] =
                                [record EXCEPT !.count = record.count + 1]]]

\* resetLimit(ip, 'jobSubmission')
resetLimit(l, ip) == [l EXCEPT !.store[ip] = NoRecord]

----------------------------------------------------------------------------
(* The call record kept in resp *)

Call(op, id, arg, http, out) ==
    [op |-> op, id |-> id, arg |-> arg, http |-> http, out |-> out]

NoCall == Call("none", NoId, Undef, 0, Undef)

\* the headers the submission endpoint prepares after the rate-limit check
RateLimitHeaders ==
    {"X-RateLimit-Limit", "X-RateLimit-Remaining", "X-RateLimit-Reset"}

NoHeaders == {}

\* a response of the submission endpoint: a call record with the names of
\* the headers passed to NextResponse.json
PostCall(op, id, arg, http, out, headers) ==
    [op |-> op, id |-> id, arg |-> arg, http |-> http, out |-> out,
     headers |-> headers]

\* the pipelines at rest, the renderer idle, no service call
NoPipes == << >>
RenderResult(ok, type) == [success |-> ok, type |-> type]

NoResult == RenderResult(FALSE, Undef)

FsIdle ==
    [pc |-> "idle", tempDir |-> FALSE, code |-> NoCode, docker |-> Undef,
     timer |-> Undef, settled |-> Undef, exit |-> Undef, stderr |-> Undef,
     video |-> FALSE, published |-> FALSE, result |-> NoResult]

NoSvc == [service |-> Undef, transport |-> Undef, code |-> NoCode,
            result |-> Failure(Undef, Undef)]

----------------------------------------------------------------------------
(* RepoSpec: the repository's operations, called in any order.  The two     *)
(* operations that read the document and write it in separate database      *)
(* calls are two steps each.                                                *)

\* the code every caller of updateJobWithCode has validated before
GoodCode ==
    [NoCode EXCEPT !.present = TRUE, !.imp = TRUE, !.scenes = 1,
                   !.construct = TRUE]

\* progress and message as the callers pass them with each status
ProgressFor(status) ==
    IF status \in {LegacyGenerating, "generating_code"} THEN 25
    ELSE IF status = "rendering" THEN 50 ELSE UndefN

MessageFor(status) ==
    IF status \in {LegacyGenerating, "generating_code"} THEN "Analyzing prompt"
    ELSE IF status = "rendering" THEN "Rendering scene" ELSE Undef

\* one document: every operation touches the document of its id alone
RepoIds == {1}

RepoCreateJob ==
    /\ jobs = << >>
    /\ \E s \in AllStatus :
         /\ jobs' = createJob(jobs, NewDoc(s, "api"))
         /\ resp' = Call("createJob", Len(jobs) + 1, s, 0, "ok")
    /\ UNCHANGED <<pending, pipe, now, fs, svc, cache, limiter, hook, localStorage, mongo>>

RepoUpdateJobStatusBegin ==
    \E id \in RepoIds, s \in AllStatus :
      LET r == updateJobStatusCheck(jobs, id, s) IN
      /\ IF r = "write"
         THEN /\ Cardinality(pending) < MaxPending
              /\ pending' = pending \cup
                     {[op |-> "updateJobStatus", id |-> id, status |-> s]}
         ELSE UNCHANGED pending
      /\ resp' = Call("updateJobStatus", id, s, 0, r)
      /\ UNCHANGED <<jobs, pipe, now, fs, svc, cache, limiter, hook, localStorage, mongo>>

RepoUpdateJobStatusEnd ==
    \E p \in pending :
      /\ p.op = "updateJobStatus"
      /\ jobs' = updateJobStatusWrite(jobs, p.id, p.status,
                                      ProgressFor(p.status), MessageFor(p.status))
      /\ pending' = pending \ {p}
      /\ resp' = Call("updateJobStatus", p.id, p.status, 0, "ok")
      /\ UNCHANGED <<pipe, now, fs, svc, cache, limiter, hook, localStorage, mongo>>

RepoUpdateJobWithCodeBegin ==
    \E id \in RepoIds :
      LET r == updateJobWithCodeCheck(jobs, id) IN
      /\ IF r = "write"
         THEN /\ Cardinality(pending) < MaxPending
              /\ pending' = pending \cup
                     {[op |-> "updateJobWithCode", id |-> id, status |-> Undef]}
         ELSE UNCHANGED pending
      /\ resp' = Call("updateJobWithCode", id, Undef, 0, r)
      /\ UNCHANGED <<jobs, pipe, now, fs, svc, cache, limiter, hook, localStorage, mongo>>

RepoUpdateJobWithCodeEnd ==
    \E p \in pending :
      /\ p.op = "updateJobWithCode"
      /\ jobs' = updateJobWithCodeWrite(jobs, p.id, GoodCode)
      /\ pending' = pending \ {p}
      /\ resp' = Call("updateJobWithCode", p.id, Undef, 0, "ok")
      /\ UNCHANGED <<pipe, now, fs, svc, cache, limiter, hook, localStorage, mongo>>

RepoCompleteJobWithVideo ==
    \E id \in RepoIds :
      /\ jobs' = completeJobWithVideo(jobs, id, "/videos/id.mp4")
      /\ resp' = Call("completeJobWithVideo", id, Undef, 0,
                      IF id \in Ids(jobs) THEN "ok" ELSE "null")
      /\ UNCHANGED <<pending, pipe, now, fs, svc, cache, limiter, hook, localStorage, mongo>>

\* failJob as the status endpoint calls it for a timeout, and with its defaults
RepoFailJob ==
    \E id \in RepoIds, m \in {Undef, "timeout"} :
      /\ jobs' = failJob(jobs, id, m, m,
                         IF m = Undef THEN Undef ELSE "code_generation")
      /\ resp' = Call("failJob", id, m, 0,
                      IF id \in Ids(jobs) THEN "ok" ELSE "null")
      /\ UNCHANGED <<pending, pipe, now, fs, svc, cache, limiter, hook, localStorage, mongo>>

\* useJobPolling before its first render: useState and useRef initial values;
\* timers are the intervals setInterval has created and clearInterval has not
\* cleared, fetches the calls of fetchJob awaiting their response
NoHook ==
    [jobId |-> NoId, job |-> NoJob, loading |-> TRUE, error |-> Undef,
     intervalRef |-> NoId, mountedRef |-> TRUE,
     timers |-> {}, fetches |-> {}, effect |-> 0, rejected |-> 0]

\* the module before its first call: `cached` and global._mongoClientPromise
\* are undefined (promise 0), no connection was attempted, nobody has called
NoMongo ==
    [cached |-> NoId, global |-> NoId, attempts |-> 0, settled |-> << >>,
     calls |-> << >>]

\* localStorage.getItem(CACHE_KEY) === null
NoStorage == [kind |-> "null", version |-> Undef, jobs |-> << >>]

RepoInit ==
    /\ jobs = << >>
    /\ pending = {}
    /\ resp = NoCall
    /\ pipe = NoPipes
    /\ now = 0
    /\ fs = FsIdle
    /\ svc = NoSvc
    /\ cache = << >>
    /\ limiter = NoLimiter
    /\ hook = NoHook
    /\ localStorage = NoStorage
    /\ mongo = NoMongo

RepoNext ==
    \/ RepoCreateJob
    \/ RepoUpdateJobStatusBegin
    \/ RepoUpdateJobStatusEnd
    \/ RepoUpdateJobWithCodeBegin
    \/ RepoUpdateJobWithCodeEnd
    \/ RepoCompleteJobWithVideo
    \/ RepoFailJob

RepoSpec == RepoInit /\ [][RepoNext]_vars

----------------------------------------------------------------------------
(* Properties of the repository (RepoSpec) *)

\* the transitions the specification lists as allowed
AllowedTransitions ==
    {<<"queued", "generating_code">>, <<"queued", "failed">>,
     <<"generating_code", "rendering">>, <<"generating_code", "failed">>,
     <<"rendering", "done">>, <<"rendering", "failed">>}

\* the step is a call of op that has just returned or has just been validated
Called(op) == resp'.op = op /\ resp' # resp

\* C1: a job that was failed for a timeout stays failed when
\* completeJobWithVideo is called for it afterwards.
C1_TimedOutJobStaysFailed ==
    [][(/\ jobs # << >>
        /\ jobs[1].status = "failed"
        /\ jobs[1].error.message = "timeout"
        /\ Called("completeJobWithVideo"))
       => jobs'[1].status = "failed"]_vars

\* C2: a job whose stored status is done is not turned into failed by a
\* failJob that is applied after the job was completed.
C2_DoneJobStaysDone ==
    [][(/\ jobs # << >>
        /\ jobs[1].status = "done"
        /\ Called("failJob"))
       => jobs'[1].status = "done"]_vars

\* C3: for every pair (current, requested) of job statuses that is not an
\* allowed transition, updateJobStatus throws and leaves the stored
\* document (status, progress, progressMessage) as it was.
C3_InvalidTransitionRejected ==
    [][\A req \in JobStatus :
         (/\ jobs # << >>
          /\ jobs[1].status \in JobStatus
          /\ <<jobs[1].status, req>> \notin AllowedTransitions
          /\ Called("updateJobStatus")
          /\ resp'.arg = req
          /\ resp'.out # "ok")
         => (resp'.out = "throw" /\ jobs' = jobs /\ pending' = pending)]_vars

\* C3 witness: updateJobStatus(id, rendering) on a done job has thrown
C3_Witness ==
    /\ jobs # << >>
    /\ jobs[1].status = "done"
    /\ resp = Call("updateJobStatus", 1, "rendering", 0, "throw")

----------------------------------------------------------------------------
(* ValidSpec: one call of a service, on any transport outcome and any     *)
(* response; the services keep no state from one call to the next         *)

ValidGenerateCode ==
    \E t \in Transports \ {"fetch_exception"}, c \in Responses :
      /\ svc.service = Undef
      /\ svc' = [service |-> "generateCode", transport |-> t,
                 code |-> IF t = "ok" THEN c ELSE NoCode,
                 result |-> generateCode(t, c)]
      /\ UNCHANGED <<jobs, pending, resp, pipe, now, fs, cache, limiter, hook, localStorage, mongo>>

ValidGenerateFixedCode ==
    \E t \in Transports, c \in Responses :
      /\ svc.service = Undef
      /\ svc' = [service |-> "generateFixedCode", transport |-> t,
                 code |-> IF t = "ok" THEN c ELSE NoCode,
                 result |-> generateFixedCode(t, c)]
      /\ UNCHANGED <<jobs, pending, resp, pipe, now, fs, cache, limiter, hook, localStorage, mongo>>

ValidNext == ValidGenerateCode \/ ValidGenerateFixedCode

ValidSpec == RepoInit /\ [][ValidNext]_vars

\* C8: the code a service returns with success, which is the code the
\* pipelines store and hand to renderCode, contains no denylisted import
\* and no forbidden call.
C8_AcceptedCodeIsSafe ==
    (svc.service # Undef /\ svc.result.success)
        => ~(svc.result.code.denied \/ svc.result.code.call)

----------------------------------------------------------------------------
(* RenderSpec: ManimRendererService.renderCode for one job id               *)
(*                                                                          *)
(* fs.pc       idle, running (awaiting executeDocker), returned             *)
(* fs.tempDir  the directory <tempDir>/mathmotion-<jobId> exists            *)
(* fs.docker   running, killed, errored, closed                             *)
(* fs.timer    armed, fired, cleared                                        *)
(* fs.settled  how the promise of executeDocker settled: resolved, or the   *)
(*             message it was rejected with                                 *)
(* fs.exit     the code of the close event: "0", "1", or "null" for a       *)
(*             process ended by a signal; fs.stderr what it wrote           *)
(* fs.video    an .mp4 exists under <tempDir>/media/videos                  *)
(* An error message is the tag of the substrings the catch block looks for. *)

categorize(errorMessage) ==
    IF errorMessage \in {"timeout", "docker+timeout"} THEN "timeout"
    ELSE IF errorMessage = "docker" THEN "docker_error"
    ELSE IF errorMessage = "ENOENT" THEN "file_error"
    ELSE "runtime_error"

extractSceneName(code) == code.scenes >= 1

\* fs.rmSync(tempDir, {recursive, force})
cleanup(f) == [f EXCEPT !.tempDir = FALSE, !.video = FALSE]

Settle(f, outcome) == IF f.settled = Undef THEN outcome ELSE f.settled

RenderCodes ==
    {GoodCode, [GoodCode EXCEPT !.scenes = 0], [GoodCode EXCEPT !.scenes = 2],
     [GoodCode EXCEPT !.denied = TRUE]}

\* renderCode up to its await: steps 1-3 and the spawn of executeDocker
RenderStart ==
    /\ fs.pc \in {"idle", "returned"}
    /\ \E code \in RenderCodes, io \in {"ok", "mkdir", "write"} :
         LET f0 == [FsIdle EXCEPT !.tempDir = fs.tempDir, !.video = fs.video,
                                  !.published = fs.published, !.code = code]
             f1 == [f0 EXCEPT !.tempDir = TRUE]
         IN  fs' =
               IF io = "mkdir" /\ ~fs.tempDir
               THEN [f0 EXCEPT !.pc = "returned",
                        !.result = RenderResult(FALSE, categorize("EACCES"))]
               ELSE IF io = "write"
               THEN [cleanup(f1) EXCEPT !.pc = "returned",
                        !.result = RenderResult(FALSE, categorize("EACCES"))]
               ELSE IF ~extractSceneName(code)
               THEN [f1 EXCEPT !.pc = "returned",
                        !.result = RenderResult(FALSE, "runtime_error")]
               ELSE [f1 EXCEPT !.pc = "running", !.docker = "running",
                        !.timer = "armed"]
    /\ UNCHANGED <<jobs, pending, resp, pipe, now, svc, cache, limiter, hook, localStorage, mongo>>

\* setTimeout callback of executeDocker
TimerFire ==
    /\ fs.timer = "armed"
    /\ fs' = [fs EXCEPT !.timer = "fired", !.docker = "killed",
                        !.settled = Settle(fs, "timeout")]
    /\ UNCHANGED <<jobs, pending, resp, pipe, now, svc, cache, limiter, hook, localStorage, mongo>>

\* process.on('close'): exit code 0 or not, stderr naming a timeout or not,
\* and whether the run left a video behind
DockerClose ==
    /\ fs.docker \in {"running", "killed", "errored"}
    /\ \E code \in {"0", "1", "null"}, stderr \in {"plain", "timeout"},
          v \in BOOLEAN :
         /\ fs.docker = "running" => code # "null"
         /\ fs.docker = "killed" => code = "null"
         /\ fs.docker = "errored" => code = "1" /\ stderr = "plain"
         /\ code # "0" => ~v
         /\ fs' = [fs EXCEPT
                     !.docker = "closed",
                     !.exit = code,
                     !.stderr = stderr,
                     !.timer = IF fs.timer = "armed" THEN "cleared" ELSE fs.timer,
                     !.video = (fs.video \/ v) /\ fs.tempDir,
                     !.settled =
                        Settle(fs, IF code = "0" THEN "resolved"
                                   ELSE IF stderr = "timeout" THEN "docker+timeout"
                                   ELSE "docker")]
    /\ UNCHANGED <<jobs, pending, resp, pipe, now, svc, cache, limiter, hook, localStorage, mongo>>

\* process.on('error'): the spawn failed
DockerError ==
    /\ fs.docker = "running"
    /\ fs' = [fs EXCEPT !.docker = "errored",
                        !.timer = IF fs.timer = "armed" THEN "cleared" ELSE fs.timer,
                        !.settled = Settle(fs, "docker")]
    /\ UNCHANGED <<jobs, pending, resp, pipe, now, svc, cache, limiter, hook, localStorage, mongo>>

\* renderCode after its await: steps 5-7, or the catch block
RenderResume ==
    /\ fs.pc = "running"
    /\ fs.settled # Undef
    /\ \E copy \in {"ok", "ENOENT"} :
         fs' =
           IF fs.settled = "resolved"
           THEN IF ~fs.video
                THEN [fs EXCEPT !.pc = "returned",
                         !.result = RenderResult(FALSE, "runtime_error")]
                ELSE IF copy = "ok"
                THEN [cleanup(fs) EXCEPT !.pc = "returned", !.published = TRUE,
                         !.result = RenderResult(TRUE, Undef)]
                ELSE [cleanup(fs) EXCEPT !.pc = "returned",
                         !.result = RenderResult(FALSE, categorize(copy))]
           ELSE [cleanup(fs) EXCEPT !.pc = "returned",
                    !.result = RenderResult(FALSE, categorize(fs.settled))]
    /\ UNCHANGED <<jobs, pending, resp, pipe, now, svc, cache, limiter, hook, localStorage, mongo>>

RenderNext ==
    RenderStart \/ TimerFire \/ DockerClose \/ DockerError \/ RenderResume

RenderSpec == RepoInit /\ [][RenderNext]_vars

\* C7: once renderCode has returned, the per-job temporary directory does
\* not exist, whichever path the call took.
C7_TempDirRemovedOnReturn == fs.pc = "returned" => ~fs.tempDir

----------------------------------------------------------------------------
(* Prompt cache *)

MAX_CACHE_SIZE == 1000

\* The milliseconds of a day on the clock the cache reads.  TLC's integers
\* have 32 bits, which the 2,592,000,000 ms of 30 days exceed; the cache
\* only compares the difference of two clock readings with the 30 days, so
\* a day of 24 * 60 * 60 ms keeps every comparison as it is.
CacheDayMs == 24 * 60 * 60

CACHE_DURATION_MS == 30 * CacheDayMs

NoCache == << >>

\* A text is the sequence of its characters; a run of characters other than
\* the blank and the bar may stand as one element.
Blank == " "

RECURSIVE trimStart(_)
trimStart(text) ==
    IF text # << >> /\ Head(text) = Blank THEN trimStart(Tail(text)) ELSE text

RECURSIVE trimEnd(_)
trimEnd(text) ==
    IF text # << >> /\ text[Len(text)] = Blank
    THEN trimEnd(SubSeq(text, 1, Len(text) - 1)) ELSE text

\* String.prototype.trim
trim(text) == trimEnd(trimStart(text))

\* sha256 of `${prompt.trim()}|${stylePreset}`; the digest stands for the
\* string it is taken of (no two strings in use collide)
generateHash(prompt, stylePreset) == trim(prompt) \o <<"|">> \o stylePreset

HasOutput(job) == job.code.present \/ job.videoUrl # Undef

\* the cache is the Map's entries in insertion order; Cached is the position
\* of the entry under the hash, if there is one
Cached(c, hash) == {i \in 1..Len(c) : c[i].hash = hash}

\* Map.delete
cacheDelete(c, hash) == SelectSeq(c, LAMBDA e : e.hash # hash)

isExpired_never(e, t) == FALSE

\* now - cached.cachedAt > CACHE_DURATION_MS
isExpired(e, t) == t - e.cachedAt > CACHE_DURATION_MS

getCachedJob_miss(c, prompt, stylePreset, t) == NoJob

\* the job getCachedJob returns, NoJob for none
getCachedJob(c, prompt, stylePreset, t) ==
    LET hash == generateHash(prompt, stylePreset)
    IN  IF Cached(c, hash) = {} THEN NoJob
        ELSE LET cached == c[CHOOSE i \in Cached(c, hash) : TRUE]
             IN  IF isExpired(cached, t) THEN NoJob ELSE cached.job

\* the cache after getCachedJob: an expired entry deleted, a hit counted
getCachedJobEffect(c, prompt, stylePreset, t) ==
    LET hash == generateHash(prompt, stylePreset)
    IN  IF Cached(c, hash) = {} THEN c
        ELSE LET i == CHOOSE k \in Cached(c, hash) : TRUE
             IN  IF isExpired(c[i], t) THEN cacheDelete(c, hash)
                 ELSE [c EXCEPT ![i].hitCount = @ + 1]

\* isCached: its result and the cache after it
isCached(c, prompt, stylePreset, t) ==
    LET hash == generateHash(prompt, stylePreset)
    IN  /\ Cached(c, hash) # {}
        /\ ~isExpired(c[CHOOSE i \in Cached(c, hash) : TRUE], t)

isCachedEffect(c, prompt, stylePreset, t) ==
    LET hash == generateHash(prompt, stylePreset)
    IN  IF Cached(c, hash) = {} THEN c
        ELSE IF isExpired(c[CHOOSE i \in Cached(c, hash) : TRUE], t)
        THEN cacheDelete(c, hash) ELSE c

\* oldestKey before the loop finds an entry
NoKey == << >>

\* the loop over cache.entries(): the hash of the first entry with the
\* smallest cachedAt below Date.now(), NoKey (null) when none is below it
oldestKey(c, t) ==
    LET older == {i \in 1..Len(c) : c[i].cachedAt < t}
        times == {c[i].cachedAt : i \in older}
        oldestTime == CHOOSE m \in times : \A x \in times : m <= x
        first == {i \in older : c[i].cachedAt = oldestTime}
    IN  IF older = {} THEN NoKey
        ELSE c[CHOOSE i \in first : \A k \in first : i <= k].hash

setCachedJob_always(c, prompt, stylePreset, job, t) ==
    Append(cacheDelete(c, generateHash(prompt, stylePreset)),
           [hash |-> generateHash(prompt, stylePreset), prompt |-> trim(prompt),
            stylePreset |-> stylePreset, jobId |-> job.id, job |-> job,
            cachedAt |-> t, hitCount |-> 0])

setCachedJob(c, prompt, stylePreset, job, t) ==
    LET hash == generateHash(prompt, stylePreset)
        kept == IF Len(c) >= MAX_CACHE_SIZE /\ oldestKey(c, t) # NoKey
                THEN cacheDelete(c, oldestKey(c, t)) ELSE c
    IN  IF job.status # "done" \/ ~HasOutput(job) THEN c
        ELSE IF Cached(c, hash) # {} THEN c
        ELSE Append(kept,
                    [hash |-> hash, prompt |-> trim(prompt),
                     stylePreset |-> stylePreset, jobId |-> job.id,
                     job |-> job, cachedAt |-> t, hitCount |-> 0])

\* clearPrompt
clearPrompt(c, prompt, stylePreset) ==
    cacheDelete(c, generateHash(prompt, stylePreset))

----------------------------------------------------------------------------
(* Timeout detector *)

NotTimedOut ==
    [isTimedOut |-> FALSE, message |-> Undef, logs |-> Undef, stage |-> Undef,
     type |-> Undef]

TimedOut(message, stage) ==
    [isTimedOut |-> TRUE, message |-> message, logs |-> "Timeout detected",
     stage |-> stage, type |-> "timeout"]

checkForTimeout_always(job, t) ==
    TimedOut("Job failed to start processing", "code_generation")

\* t is Date.now()
checkForTimeout(job, t) ==
    IF job.status = "queued" /\ job.queuedAt # UndefN
          /\ t - job.queuedAt > JOB_TIMEOUT_MS.queued
    THEN TimedOut("Job failed to start processing", "code_generation")
    ELSE IF job.status = "generating_code" /\ job.codeGenerationStartedAt # UndefN
          /\ t - job.codeGenerationStartedAt > JOB_TIMEOUT_MS.generating_code
    THEN TimedOut("Code generation took too long", "code_generation")
    ELSE IF job.status = "rendering" /\ job.renderingStartedAt # UndefN
          /\ t - job.renderingStartedAt > JOB_TIMEOUT_MS.rendering
    THEN TimedOut("Rendering took too long", "rendering")
    ELSE NotTimedOut

----------------------------------------------------------------------------
(* Spec: the submission endpoint, the detached pipelines and the status     *)
(* endpoint over one jobs collection.                                       *)
(*                                                                          *)
(* part_015 holds two versions of the submission route.  The later one      *)
(* (lines 10-506) writes the attempt fields and asks for the status         *)
(* generating_code; the earlier one (lines 515-711) writes neither and      *)
(* asks for generating.  Both run against the one JobRepository of the      *)
(* sources.  route is "api" for a document of the later version and         *)
(* "legacy" for one of the earlier version.                                 *)
(*                                                                          *)
(* The submission handlers are modelled for the requests the rate limiter   *)
(* lets through.  A pipeline's repository calls are single steps here:      *)
(* within one job the pipeline is the only writer that passes a status      *)
(* check, and RepoSpec has the calls in two steps.                          *)

TickMs == JOB_TIMEOUT_MS.queued + 1000

JobIds == 1..MaxJobs

\* the ids a request names: those of the documents, and one of no document
RequestIds == {i \in JobIds : i <= Len(jobs) + 1}

NoGen == Failure(Undef, Undef)

NewPipe(kind, parentJobId) ==
    [kind |-> kind, pc |-> "status1", gen |-> NoGen, code |-> NoCode,
     render |-> NoResult, error |-> Undef, parentJobId |-> parentJobId]

canRetry_any(job) == TRUE

\* JobRepository.canRetry is called by the route and is not part of the
\* sources; the specification gives attemptNumber < maxAttempts
canRetry(job) == JsLT(job.attemptNumber, job.maxAttempts)

PipelineResponses ==
    {GoodCode, [GoodCode EXCEPT !.denied = TRUE], [GoodCode EXCEPT !.construct = FALSE]}

\* what renderCode can return for a code text (see RenderSpec)
RenderOutcomes(code) ==
    IF ~extractSceneName(code) THEN {RenderResult(FALSE, "runtime_error")}
    ELSE {RenderResult(TRUE, Undef)} \cup
         {RenderResult(FALSE, t) :
            t \in {"timeout", "runtime_error", "docker_error", "file_error"}}

IsSecurity(details) ==
    details \in {"Forbidden import detected", "Forbidden function call detected",
                 "Potentially unsafe pattern detected",
                 "camera manipulation not allowed", "quality override not allowed"}

\* the message a pipeline fails the job with after a failed generation
GenMessage(kind, gen) ==
    IF kind = "autofix"
    THEN IF gen.type = "validation" THEN "Generated code failed validation"
         ELSE "Auto-fix failed"
    ELSE IF gen.type = "rate_limit" THEN "Rate limit exceeded"
    ELSE IF gen.type = "api_error" THEN "Service configuration error"
    ELSE IF gen.type = "network" THEN "Network error"
    ELSE IF IsSecurity(gen.details) THEN "Code contains unauthorized operations"
    ELSE "Generated code failed validation"

\* the message a pipeline fails the job with after a failed render
RenderMessage(kind, type) ==
    IF type = "timeout" THEN "Rendering took too long"
    ELSE IF type = "runtime_error" THEN "Manim encountered an error"
    ELSE IF kind = "autofix" THEN "Rendering failed"
    ELSE IF type = "docker_error" THEN "Rendering system error"
    ELSE "Failed to save video file"

UnexpectedMessage == "An unexpected error occurred"

\* renderResult.logs || errorDetails.details
RenderLogs == "render logs"

\* the messages of the errors the try block can be left with
InvalidTransition == "Invalid status transition"
DatabaseError == "database error"

Legacy(js) == {i \in Ids(js) : js[i].route = "legacy"}

Fresh(js) ==
    {i \in Ids(js) : js[i].route = "api" /\ js[i].parentJobId = NoId
                                         /\ ~js[i].isAutoFixJob}

Init ==
    /\ jobs = << >>
    /\ pending = {}
    /\ resp = NoCall
    /\ pipe = NoPipes
    /\ now = 0
    /\ fs = FsIdle
    /\ svc = NoSvc
    /\ cache = NoCache
    /\ limiter = NoLimiter
    /\ hook = NoHook
    /\ localStorage = NoStorage
    /\ mongo = NoMongo

\* POST /api/jobs without parentJobId and autoFixJobId, for one request body
SubmitNewWith(prompt, stylePreset) ==
    /\
      LET cachedJob == getCachedJob(cache, prompt, stylePreset, now)
          hit == cachedJob # NoJob /\ cachedJob.status = "done" /\ HasOutput(cachedJob)
      IN  IF prompt = << >> \/ stylePreset = << >>
          THEN /\ resp' = PostCall("POST new", NoId, NoId, 400,
                               "Missing required fields", NoHeaders)
               /\ UNCHANGED <<jobs, pipe, cache, mongo>>
          ELSE /\ Len(jobs) < MaxJobs
               /\ Cardinality(Fresh(jobs)) < MaxNew
               /\ jobs' = createJob(jobs,
                    IF hit
                    THEN [NewDoc("done", "api") EXCEPT
                            !.prompt = cachedJob.prompt,
                            !.stylePreset = cachedJob.stylePreset,
                            !.attemptNumber = 1, !.maxAttempts = 3,
                            !.autoFixAttemptCount = 0, !.code = cachedJob.code,
                            !.videoUrl = cachedJob.videoUrl, !.isCacheHit = TRUE,
                            !.cachedFromJobId = cachedJob.id, !.progress = 100]
                    ELSE [NewDoc("queued", "api") EXCEPT
                            !.prompt = prompt, !.stylePreset = stylePreset,
                            !.queuedAt = now, !.attemptNumber = 1,
                            !.maxAttempts = 3, !.autoFixAttemptCount = 0])
               /\ pipe' = Append(pipe,
                    IF hit THEN [NewPipe("none", NoId) EXCEPT !.pc = "none"]
                    ELSE NewPipe("normal", NoId))
               /\ cache' = getCachedJobEffect(cache, prompt, stylePreset, now)
               /\ resp' = PostCall("POST new", Len(jobs) + 1, NoId, 201,
                                   IF hit THEN "done" ELSE "queued",
                                   RateLimitHeaders)
    /\ UNCHANGED <<pending, now, fs, svc, mongo>>

\* POST /api/jobs without parentJobId and autoFixJobId
SubmitNewBody ==
    /\ \E prompt \in {<<"p">>, << >>} : SubmitNewWith(prompt, <<"Classic">>)
    /\ UNCHANGED <<hook, localStorage, mongo>>

\* POST /api/jobs with parentJobId
SubmitRetryBody ==
    /\ \E parentJobId \in RequestIds :
      LET parentJob == findJobById(jobs, parentJobId)
      IN  IF parentJob = NoJob
          THEN /\ resp' = PostCall("POST retry", NoId, parentJobId, 404,
                               "Parent job not found", NoHeaders)
               /\ UNCHANGED <<jobs, pipe, hook, localStorage, mongo>>
          ELSE IF ~canRetry(parentJob)
          THEN /\ resp' = PostCall("POST retry", NoId, parentJobId, 400,
                               "No more retry attempts available", NoHeaders)
               /\ UNCHANGED <<jobs, pipe, hook, localStorage, mongo>>
          ELSE /\ Len(jobs) < MaxJobs
               /\ jobs' = createJob(jobs,
                    [NewDoc("queued", "api") EXCEPT
                       !.queuedAt = now,
                       !.attemptNumber = JsPlus1(parentJob.attemptNumber),
                       !.parentJobId = parentJobId, !.maxAttempts = 3,
                       !.autoFixAttemptCount = 0])
               /\ pipe' = Append(pipe, NewPipe("normal", parentJobId))
               /\ resp' = PostCall("POST retry", Len(jobs) + 1, parentJobId, 201,
                                   "queued", RateLimitHeaders)
    /\ UNCHANGED <<pending, now, fs, svc, cache, hook, localStorage, mongo>>

\* POST /api/jobs with autoFixJobId
SubmitAutoFixBody ==
    /\ \E autoFixJobId \in RequestIds :
      LET originalJob == findJobById(jobs, autoFixJobId)
      IN  IF originalJob = NoJob
          THEN /\ resp' = PostCall("POST autofix", NoId, autoFixJobId, 404,
                               "Original job not found", NoHeaders)
               /\ UNCHANGED <<jobs, pipe, hook, localStorage, mongo>>
          ELSE IF JsGE(originalJob.autoFixAttemptCount, 2)
          THEN /\ resp' = PostCall("POST autofix", NoId, autoFixJobId, 400,
                               "Auto-fix attempts exhausted", NoHeaders)
               /\ UNCHANGED <<jobs, pipe, hook, localStorage, mongo>>
          ELSE IF originalJob.error = NoError \/ ~originalJob.code.present
          THEN /\ resp' = PostCall("POST autofix", NoId, autoFixJobId, 400,
                               "Cannot auto-fix: missing error or code information",
                               NoHeaders)
               /\ UNCHANGED <<jobs, pipe, hook, localStorage, mongo>>
          ELSE /\ Len(jobs) < MaxJobs
               /\ jobs' = createJob(jobs,
                    [NewDoc("queued", "api") EXCEPT
                       !.queuedAt = now,
                       !.attemptNumber = originalJob.attemptNumber,
                       !.parentJobId = originalJob.parentJobId,
                       !.maxAttempts = originalJob.maxAttempts,
                       !.autoFixAttemptCount = JsPlus1(originalJob.autoFixAttemptCount),
                       !.isAutoFixJob = TRUE,
                       !.originalFailedJobId = autoFixJobId])
               /\ pipe' = Append(pipe, NewPipe("autofix", NoId))
               /\ resp' = PostCall("POST autofix", Len(jobs) + 1, autoFixJobId,
                                   201, "queued", RateLimitHeaders)
    /\ UNCHANGED <<pending, now, fs, svc, cache, hook, localStorage, mongo>>

\* POST /api/jobs of the earlier version of the route
SubmitLegacyBody ==
    /\ Cardinality(Legacy(jobs)) < MaxLegacy
    /\ Len(jobs) < MaxJobs
    /\ jobs' = createJob(jobs, NewDoc("queued", "legacy"))
    /\ pipe' = Append(pipe, NewPipe("legacy", NoId))
    /\ resp' = Call("POST legacy", Len(jobs) + 1, NoId, 201, "queued")
    /\ UNCHANGED <<pending, now, fs, svc, cache, hook, localStorage, mongo>>

\* the handlers for the requests the rate limiter lets through
SubmitNew == SubmitNewBody /\ UNCHANGED <<limiter, hook, localStorage, mongo>>

SubmitRetry == SubmitRetryBody /\ UNCHANGED <<limiter, hook, localStorage, mongo>>

SubmitAutoFix == SubmitAutoFixBody /\ UNCHANGED <<limiter, hook, localStorage, mongo>>

SubmitLegacy == SubmitLegacyBody /\ UNCHANGED <<limiter, hook, localStorage, mongo>>

----------------------------------------------------------------------------
(* processJob and processAutoFixJob, one action per await.  pipe[j].pc:     *)
(*   status1     awaiting updateJobStatus(generating_code | generating, 25) *)
(*   generate    awaiting generateCode / generateFixedCode                  *)
(*   failGen     awaiting failJob after a failed generation                 *)
(*   store       awaiting updateJobWithCode                                 *)
(*   status2     awaiting updateJobStatus(rendering, 50)                    *)
(*   reread      awaiting findJobById                                       *)
(*   render      awaiting renderCode                                        *)
(*   complete    awaiting completeJobWithVideo                              *)
(*   failRender  awaiting failJob after a failed render                     *)
(*   catch       in the catch block, awaiting failJob                       *)
(*   ended       the function returned                                      *)
(*   crashed     the function rejected; the caller's .catch logged it       *)
(*   none        no pipeline (cache hit)                                    *)

At(j, pc) == j \in Ids(jobs) /\ pipe[j].pc = pc

\* the locals are gone once the function has returned or rejected
Goto(j, pc) ==
    IF pc \in {"ended", "crashed"}
    THEN [pipe EXCEPT ![j] = [NewPipe(@.kind, @.parentJobId) EXCEPT !.pc = pc]]
    ELSE [pipe EXCEPT ![j].pc = pc]

Throw_on(j, error) == [pipe EXCEPT ![j].pc = "render", ![j].error = error]

\* an await inside the try block rejects: control enters the catch block
Throw(j, error) == [pipe EXCEPT ![j].pc = "catch", ![j].error = error]

FirstStatus(kind) == IF kind = "legacy" THEN LegacyGenerating ELSE "generating_code"

\* the pipelines' updateJobStatus and what follows its outcome
PipeUpdateStatus(j, status, progress, next) ==
    LET r == updateJobStatusCheck(jobs, j, status)
    IN  /\ jobs' = IF r = "write"
                   THEN updateJobStatusWrite(jobs, j, status, progress, MessageFor(status))
                   ELSE jobs
        /\ pipe' = IF r = "throw" THEN Throw(j, InvalidTransition) ELSE Goto(j, next)

PipeStatus1(j) ==
    /\ At(j, "status1")
    /\ PipeUpdateStatus(j, FirstStatus(pipe[j].kind), 25, "generate")
    /\ UNCHANGED <<pending, resp, now, fs, svc, cache, limiter, hook, localStorage, mongo>>

PipeGenerate(j) ==
    /\ At(j, "generate")
    /\ \E t \in Transports, c \in PipelineResponses :
         LET gen == IF pipe[j].kind = "autofix" THEN generateFixedCode(t, c)
                    ELSE generateCode(t, c)
         IN  pipe' = [pipe EXCEPT ![j].gen = gen,
                                  ![j].pc = IF gen.success THEN "store" ELSE "failGen"]
    /\ UNCHANGED <<jobs, pending, resp, now, fs, svc, cache, limiter, hook, localStorage, mongo>>

PipeFailGen(j) ==
    /\ At(j, "failGen")
    /\ jobs' = failJob(jobs, j, GenMessage(pipe[j].kind, pipe[j].gen),
                        pipe[j].gen.details, "code_generation")
    /\ pipe' = Goto(j, "ended")
    /\ UNCHANGED <<pending, resp, now, fs, svc, cache, limiter, hook, localStorage, mongo>>

PipeStore(j) ==
    /\ At(j, "store")
    /\ jobs' = IF updateJobWithCodeCheck(jobs, j) = "write"
               THEN updateJobWithCodeWrite(jobs, j, pipe[j].gen.code)
               ELSE jobs
    /\ pipe' = Goto(j, "status2")
    /\ UNCHANGED <<pending, resp, now, fs, svc, cache, limiter, hook, localStorage, mongo>>

PipeStatus2(j) ==
    /\ At(j, "status2")
    /\ PipeUpdateStatus(j, "rendering", 50, "reread")
    /\ UNCHANGED <<pending, resp, now, fs, svc, cache, limiter, hook, localStorage, mongo>>

\* findJobById, and the failJob that follows at once when no code is found
PipeReread(j) ==
    /\ At(j, "reread")
    /\ LET currentJob == findJobById(jobs, j)
       IN  IF ~currentJob.code.present
           THEN /\ jobs' = failJob(jobs, j, "Rendering failed: no code found",
                                "Job code missing or not persisted", "rendering")
                /\ pipe' = Goto(j, "ended")
           ELSE /\ jobs' = jobs
                /\ pipe' = [pipe EXCEPT ![j].code = currentJob.code, ![j].pc = "render"]
    /\ UNCHANGED <<pending, resp, now, fs, svc, cache, limiter, hook, localStorage, mongo>>

PipeRender(j) ==
    /\ At(j, "render")
    /\ \E r \in RenderOutcomes(pipe[j].code) :
         pipe' = [pipe EXCEPT ![j].render = r,
                              ![j].pc = IF r.success THEN "complete" ELSE "failRender"]
    /\ UNCHANGED <<jobs, pending, resp, now, fs, svc, cache, limiter, hook, localStorage, mongo>>

PipeComplete(j) ==
    /\ At(j, "complete")
    /\ jobs' = completeJobWithVideo(jobs, j, "video")
    /\ cache' = IF \/ pipe[j].kind = "autofix"
                   \/ pipe[j].kind = "normal" /\ pipe[j].parentJobId = NoId
                THEN setCachedJob(cache, jobs[j].prompt, jobs[j].stylePreset,
                                  findJobById(jobs', j), now)
                ELSE cache
    /\ pipe' = Goto(j, "ended")
    /\ UNCHANGED <<pending, resp, now, fs, svc, limiter, hook, localStorage, mongo>>

PipeFailRender(j) ==
    /\ At(j, "failRender")
    /\ jobs' = failJob(jobs, j, RenderMessage(pipe[j].kind, pipe[j].render.type),
                        RenderLogs, "rendering")
    /\ pipe' = Goto(j, "ended")
    /\ UNCHANGED <<pending, resp, now, fs, svc, cache, limiter, hook, localStorage, mongo>>

PipeCatch_caching(j) ==
    /\ At(j, "catch")
    /\ jobs' = failJob(jobs, j, UnexpectedMessage, pipe[j].error, "code_generation")
    /\ cache' = Append(cache,
                   [hash |-> generateHash(jobs[j].prompt, jobs[j].stylePreset),
                    prompt |-> trim(jobs[j].prompt),
                    stylePreset |-> jobs[j].stylePreset, jobId |-> j,
                    job |-> findJobById(jobs', j), cachedAt |-> now, hitCount |-> 0])
    /\ pipe' = Goto(j, "ended")
    /\ UNCHANGED <<pending, resp, now, fs, svc, limiter, hook, localStorage, mongo>>

\* the catch block: failJob, then the function returns
PipeCatch(j) ==
    /\ At(j, "catch")
    /\ jobs' = failJob(jobs, j, UnexpectedMessage, pipe[j].error, "code_generation")
    /\ pipe' = Goto(j, "ended")
    /\ UNCHANGED <<pending, resp, now, fs, svc, cache, limiter, hook, localStorage, mongo>>

DbSteps == {"status1", "failGen", "store", "status2", "reread", "complete", "failRender"}

\* the jobs whose pipeline has met a database error
FaultyJobs ==
    {i \in Ids(jobs) : \/ pipe[i].pc = "crashed"
                        \/ pipe[i].error = DatabaseError
                        \/ jobs[i].error.logs = DatabaseError}

\* a repository call inside the try block rejects with a database error
PipeDbError(j) ==
    /\ j \in Ids(jobs)
    /\ Cardinality(FaultyJobs \cup {j}) <= MaxFaulty
    /\ pipe[j].pc \in DbSteps
    /\ pipe' = Throw(j, DatabaseError)
    /\ UNCHANGED <<jobs, pending, resp, now, fs, svc, cache, limiter, hook, localStorage, mongo>>

\* the failJob of the catch block rejects with a database error
PipeCatchDbError(j) ==
    /\ At(j, "catch")
    /\ Cardinality(FaultyJobs \cup {j}) <= MaxFaulty
    /\ pipe' = Goto(j, "crashed")
    /\ UNCHANGED <<jobs, pending, resp, now, fs, svc, cache, limiter, hook, localStorage, mongo>>

PipeStep(j) ==
    \/ PipeStatus1(j)
    \/ PipeGenerate(j)
    \/ PipeFailGen(j)
    \/ PipeStore(j)
    \/ PipeStatus2(j)
    \/ PipeReread(j)
    \/ PipeRender(j)
    \/ PipeComplete(j)
    \/ PipeFailRender(j)
    \/ PipeCatch(j)

PipeFault(j) == PipeDbError(j) \/ PipeCatchDbError(j)

----------------------------------------------------------------------------
(* GET /api/jobs/{jobId} *)

Get ==
    /\ \E jobId \in RequestIds :
         LET job == findJobById(jobs, jobId)
             timeoutCheck == checkForTimeout(job, now)
         IN  IF job = NoJob
             THEN /\ resp' = Call("GET", jobId, Undef, 404, "Job not found")
                  /\ jobs' = jobs
             ELSE IF job.status \notin TERMINAL_JOB_STATES /\ timeoutCheck.isTimedOut
             THEN /\ jobs' = failJob(jobs, jobId, timeoutCheck.message, timeoutCheck.logs,
                                  timeoutCheck.stage)
                  /\ resp' = Call("GET", jobId, findJobById(jobs', jobId).error.type,
                                  200, findJobById(jobs', jobId).status)
             ELSE /\ jobs' = jobs
                  /\ resp' = Call("GET", jobId, job.error.type, 200, job.status)
    /\ UNCHANGED <<pending, pipe, now, fs, svc, cache, limiter, hook, localStorage, mongo>>

\* time passes
Tick ==
    /\ now < MaxTicks * TickMs
    /\ now' = now + TickMs
    /\ UNCHANGED <<jobs, pending, resp, pipe, fs, svc, cache, limiter, hook, localStorage, mongo>>

Submit == SubmitNew \/ SubmitRetry \/ SubmitAutoFix \/ SubmitLegacy

Next ==
    \/ SubmitNew
    \/ SubmitRetry
    \/ SubmitAutoFix
    \/ SubmitLegacy
    \/ \E j \in JobIds : PipeStep(j)
    \/ \E j \in JobIds : PipeFault(j)

Spec == Init /\ [][Next]_vars

\* PollSpec: the same system with the status endpoint and the clock, for
\* MaxPollJobs documents
PollSubmit == Submit /\ Len(jobs') <= MaxPollJobs

PollNext ==
    \/ PollSubmit
    \/ \E j \in JobIds : PipeStep(j)
    \/ \E j \in JobIds : PipeFault(j)
    \/ Get
    \/ Tick

PollSpec == Init /\ [][PollNext]_vars

----------------------------------------------------------------------------
(* PostSpec: the submission endpoint behind its rate limiter, with the      *)
(* pipelines it starts.  Every request comes from one client address.       *)

\* a || b on numbers
JsOr(a, b) == IF a = UndefN \/ a = NaN \/ a = 0 THEN b ELSE a

\* the address of the submitting client
PostIP == "10.0.0.1"

PostLimited_open(Body) ==
    /\ limiter' = checkLimit(limiter, PostIP, now).limiter
    /\ Body

\* POST /api/jobs: the rate-limit check, then the handler for the body
PostLimited(Body) ==
    LET limitCheck == checkLimit(limiter, PostIP, now) IN
    /\ limiter' = limitCheck.limiter
    /\ IF ~limitCheck.result.allowed
       THEN /\ resp' = PostCall("POST", NoId, NoId, 429,
                                JsOr(limitCheck.result.retryAfter, 60),
                                RateLimitHeaders \cup {"Retry-After"})
            /\ UNCHANGED <<jobs, pending, pipe, now, fs, svc, cache, hook, localStorage, mongo>>
       ELSE Body

PostNew == PostLimited(SubmitNewBody)

PostRetry == PostLimited(SubmitRetryBody)

PostAutoFix == PostLimited(SubmitAutoFixBody)

\* the client's window runs out
PostTick ==
    /\ now < MaxPostTicks * windowMs
    /\ now' = now + windowMs
    /\ UNCHANGED <<jobs, pending, resp, pipe, fs, svc, cache, limiter, hook, localStorage, mongo>>

PostNext ==
    \/ PostNew /\ Len(jobs') <= MaxPollJobs
    \/ PostRetry /\ Len(jobs') <= MaxPollJobs
    \/ PostAutoFix /\ Len(jobs') <= MaxPollJobs
    \/ SubmitLegacy /\ Len(jobs') <= MaxPollJobs
    \/ \E j \in JobIds : PipeStep(j)
    \/ PostTick

PostSpec == Init /\ [][PostNext]_vars

----------------------------------------------------------------------------
(* Properties of the submission endpoint and the pipelines *)

Terminal(j) == jobs[j].status \in TERMINAL_JOB_STATES

\* C4: the first pipeline step on a job that the submission endpoint has
\* created in status queued is accepted: unless the database fails, the
\* stored status becomes generating_code and the pipeline goes on to the
\* code generation.
C4_FirstTransitionAccepted ==
    [][\A j \in JobIds :
          (/\ At(j, "status1")
           /\ jobs[j].route = "api"
           /\ jobs[j].status = "queued"
           /\ pipe'[j].pc # "status1"
           /\ pipe'[j].error # DatabaseError)
          => (jobs'[j].status = "generating_code" /\ pipe'[j].pc = "generate")]_vars

\* C5: a job whose pipeline is over, because the function returned or
\* because it rejected, is done or failed: no failure inside the pipeline
\* leaves it in a non-terminal status.
C5_PipelineOverJobTerminal ==
    \A j \in Ids(jobs) : pipe[j].pc \in {"ended", "crashed"} => Terminal(j)

\* C6: a GET for a job that has been queued for more than 30 s writes the
\* job as failed and returns the failed job.
C6_QueuedTimeoutFailsJob ==
    [][\A j \in JobIds :
          (/\ j \in Ids(jobs)
           /\ jobs[j].status = "queued"
           /\ jobs[j].queuedAt # UndefN
           /\ now - jobs[j].queuedAt > JOB_TIMEOUT_MS.queued
           /\ Called("GET")
           /\ resp'.id = j)
          => (jobs'[j].status = "failed" /\ resp'.out = "failed")]_vars

AutoFixesOf(J) ==
    {i \in Ids(jobs) : jobs[i].isAutoFixJob /\ jobs[i].originalFailedJobId = J}

\* C9: no job has more than two auto-fix jobs created against it.
C9_AtMostTwoAutoFixes == \A J \in JobIds : Cardinality(AutoFixesOf(J)) <= 2

\* C10: a retry submission against a job P of the current route is accepted
\* iff P's stored attemptNumber is below P's stored maxAttempts; accepted,
\* it creates a job with attemptNumber one higher; rejected, it is answered
\* with 400 and creates no job.
C10_RetryIffAttemptsLeft ==
    [][\A P \in JobIds :
          (/\ P \in Ids(jobs)
           /\ jobs[P].route = "api"
           /\ Called("POST retry")
           /\ resp'.arg = P)
          => IF JsLT(jobs[P].attemptNumber, jobs[P].maxAttempts)
             THEN /\ resp'.http = 201
                  /\ Len(jobs') = Len(jobs) + 1
                  /\ jobs'[Len(jobs')].attemptNumber = jobs[P].attemptNumber + 1
             ELSE /\ resp'.http = 400
                  /\ jobs' = jobs]_vars

----------------------------------------------------------------------------
(* CacheSpec: the prompt cache's operations, called in any order with any   *)
(* prompt, style and job while the clock advances.  resp.arg keeps the      *)
(* prompt and the style of the call, resp.out what the call returned.       *)

\* the prompt and the style of a call: a prompt, the prompt with blanks
\* around it, and two pairs that make the same string when joined by a bar
CacheKeys ==
    {<< <<"p">>, <<"Classic">> >>,
     << <<" ", "p", " ">>, <<"Classic">> >>,
     << <<"p", "|", "x">>, <<"Classic">> >>,
     << <<"p">>, <<"x", "|", "Classic">> >>}

\* jobs as completeJobWithVideo and findJobById return them: two done jobs
\* with a video, a failed job and a done job without output
CacheJob(id, status, videoUrl) ==
    documentToJob(id, [NewDoc(status, "api") EXCEPT !.videoUrl = videoUrl])

CacheJobs ==
    {CacheJob(101, "done", "video"), CacheJob(102, "done", "video"),
     CacheJob(103, "failed", "video"), CacheJob(104, "done", Undef)}

\* the instants at which calls are made: around the start and around the
\* end of the 30 days of an entry cached at the start
CacheInstants == {0, 1, CACHE_DURATION_MS + 1, CACHE_DURATION_MS + 2}

CacheSet ==
    \E key \in CacheKeys, job \in CacheJobs :
      LET prompt == key[1]
          stylePreset == key[2] IN
      /\ cache' = setCachedJob(cache, prompt, stylePreset, job, now)
      /\ resp' = Call("setCachedJob", job.id, <<prompt, stylePreset>>, 0, Undef)
      /\ UNCHANGED <<jobs, pending, pipe, now, fs, svc, limiter, hook, localStorage, mongo>>

CacheGet ==
    \E key \in CacheKeys :
      LET prompt == key[1]
          stylePreset == key[2] IN
      /\ \A i \in Cached(cache, generateHash(prompt, stylePreset)) :
            cache[i].hitCount < MaxHits
      /\ cache' = getCachedJobEffect(cache, prompt, stylePreset, now)
      /\ resp' = Call("getCachedJob", NoId, <<prompt, stylePreset>>, 0,
                      getCachedJob(cache, prompt, stylePreset, now))
      /\ UNCHANGED <<jobs, pending, pipe, now, fs, svc, limiter, hook, localStorage, mongo>>

CacheIsCached ==
    \E key \in CacheKeys :
      LET prompt == key[1]
          stylePreset == key[2] IN
      /\ cache' = isCachedEffect(cache, prompt, stylePreset, now)
      /\ resp' = Call("isCached", NoId, <<prompt, stylePreset>>, 0,
                      isCached(cache, prompt, stylePreset, now))
      /\ UNCHANGED <<jobs, pending, pipe, now, fs, svc, limiter, hook, localStorage, mongo>>

CacheClearPrompt ==
    \E key \in CacheKeys :
      LET prompt == key[1]
          stylePreset == key[2] IN
      /\ cache' = clearPrompt(cache, prompt, stylePreset)
      /\ resp' = Call("clearPrompt", NoId, <<prompt, stylePreset>>, 0, Undef)
      /\ UNCHANGED <<jobs, pending, pipe, now, fs, svc, limiter, hook, localStorage, mongo>>

\* Date.now() moves on between two calls
CacheTick ==
    /\ \E t \in CacheInstants : t > now /\ now' = t
    /\ UNCHANGED <<jobs, pending, resp, pipe, fs, svc, cache, limiter, hook, localStorage, mongo>>

CacheNext ==
    \/ CacheSet
    \/ CacheGet
    \/ CacheIsCached
    \/ CacheClearPrompt
    \/ CacheTick

CacheSpec == Init /\ [][CacheNext]_vars

----------------------------------------------------------------------------
(* FullCacheSpec: the prompt cache filled to its capacity.  The cache is    *)
(* filled by setCachedJob calls for numbered prompts, half of the capacity  *)
(* in one clock reading; then jobs are cached under further prompts.        *)

FillBatch == MAX_CACHE_SIZE \div 2

\* the n-th numbered prompt and the done job completed for it
FillPrompt(n) == <<ToString(n)>>

FillJob(n) == CacheJob(MAX_CACHE_SIZE + n, "done", "video")

\* setCachedJob for the numbered prompts from + 1 .. to, one after the
\* other: the first half of the calls, then the second half on the cache
\* the first half has left
RECURSIVE fillCache(_, _, _, _)
fillCache(c, from, to, t) ==
    IF to <= from THEN c
    ELSE IF to = from + 1
    THEN setCachedJob(c, FillPrompt(to), <<"Classic">>, FillJob(to), t)
    ELSE LET mid == (from + to) \div 2
             half == fillCache(c, from, mid, t)
         IN  IF Len(half) >= Len(c) THEN fillCache(half, mid, to, t) ELSE half

FullFill ==
    /\ Len(cache) \in {0, FillBatch}
    /\ cache' = fillCache(cache, Len(cache), Len(cache) + FillBatch, now)
    /\ resp' = Call("setCachedJob", MAX_CACHE_SIZE + Len(cache) + FillBatch,
                    <<FillPrompt(Len(cache) + FillBatch), <<"Classic">> >>,
                    0, Undef)
    /\ UNCHANGED <<jobs, pending, pipe, now, fs, svc, limiter, hook, localStorage, mongo>>

FullSet ==
    \E key \in CacheKeys :
      /\ cache' = setCachedJob(cache, key[1], key[2],
                               CacheJob(101, "done", "video"), now)
      /\ resp' = Call("setCachedJob", 101, key, 0, Undef)
      /\ UNCHANGED <<jobs, pending, pipe, now, fs, svc, limiter, hook, localStorage, mongo>>

FullNext ==
    \/ FullFill
    \/ FullSet
    \/ CacheTick

FullCacheSpec == Init /\ [][FullNext]_vars

----------------------------------------------------------------------------
(* HitSpec: the submission endpoint over a prompt cache that holds the      *)
(* jobs of earlier completions; the requests are those the rate limiter     *)
(* lets through, and no pipeline runs.                                      *)

HitNext ==
    \/ CacheSet
    \/ CacheTick
    \/ SubmitNew
    \/ SubmitRetry
    \/ SubmitAutoFix

HitSpec == Init /\ [][HitNext]_vars

----------------------------------------------------------------------------
(* DetectSpec: TimeoutDetector.checkForTimeout on any job at any reading    *)
(* of the clock.  resp.arg keeps the job and the time of the call,          *)
(* resp.out the result.                                                     *)

\* the jobs handed to the detector: any status, each phase timestamp
\* absent or set to the start of the clock
DetectJobs ==
    {[NoJob EXCEPT !.id = 1, !.status = st, !.queuedAt = q,
                   !.codeGenerationStartedAt = g, !.renderingStartedAt = r] :
        st \in AllStatus, q \in {UndefN, 0}, g \in {UndefN, 0}, r \in {UndefN, 0}}

\* the readings of Date.now(): just below, at and just above each threshold
DetectInstants ==
    {29000, 30000, 30001, 89000, 90000, 90001, 91000, 180000, 180001}

DetectCheck ==
    \E job \in DetectJobs :
      /\ resp' = Call("checkForTimeout", job.id, [job |-> job, at |-> now], 0,
                      checkForTimeout(job, now))
      /\ UNCHANGED <<jobs, pending, pipe, now, fs, svc, cache, limiter, hook, localStorage, mongo>>

DetectTick ==
    /\ \E t \in DetectInstants : t > now /\ now' = t
    /\ UNCHANGED <<jobs, pending, resp, pipe, fs, svc, cache, limiter, hook, localStorage, mongo>>

DetectNext ==
    \/ DetectCheck
    \/ DetectTick

DetectSpec == RepoInit /\ [][DetectNext]_vars

----------------------------------------------------------------------------
(* RateSpec: the rate limiter's operations for the job submission endpoint, *)
(* called in any order for any address while the clock advances.            *)
(* resp.arg keeps the address, the record the store held for it when the    *)
(* call was made and the time of the call; resp.out the returned result.    *)

\* the instants at which calls are made: the start of a window length, one
\* millisecond after it and one millisecond before the next
RateInstants ==
    {w * windowMs + o : w \in 0..(MaxWindows - 1), o \in {0, 1, windowMs - 1}}

RateCheckLimit ==
    \E ip \in ClientIPs :
      LET r == checkLimit(limiter, ip, now) IN
      /\ limiter' = r.limiter
      /\ resp' = Call("checkLimit", NoId,
                      [ip |-> ip, record |-> limiter.store[ip], at |-> now],
                      0, r.result)
      /\ UNCHANGED <<jobs, pending, pipe, now, fs, svc, cache, hook, localStorage, mongo>>

RateResetLimit ==
    \E ip \in ClientIPs :
      /\ limiter' = resetLimit(limiter, ip)
      /\ resp' = Call("resetLimit", NoId,
                      [ip |-> ip, record |-> limiter.store[ip], at |-> now],
                      0, Undef)
      /\ UNCHANGED <<jobs, pending, pipe, now, fs, svc, cache, hook, localStorage, mongo>>

\* Date.now() moves on between two calls
RateTick ==
    /\ \E t \in RateInstants : t > now /\ now' = t
    /\ UNCHANGED <<jobs, pending, resp, pipe, fs, svc, cache, limiter, hook, localStorage, mongo>>

RateNext ==
    \/ RateCheckLimit
    \/ RateResetLimit
    \/ RateTick

RateSpec == RepoInit /\ [][RateNext]_vars

----------------------------------------------------------------------------
(* Properties of the rate limiter (RateSpec) *)

\* the calls already counted in the address's current window
WindowCount(ip) ==
    IF limiter.store[ip] = NoRecord \/ now >= limiter.store[ip].resetTime
    THEN 0 ELSE limiter.store[ip].count

\* C11: in one window of one address the first ten checkLimit calls are
\* allowed, with remaining 9, 8, ..., 0 in this order, and each is counted;
\* every later call before resetTime is denied with remaining 0 and a
\* retryAfter of at least one second, and changes neither the count nor
\* the resetTime of the record.
C11_TenAllowedPerWindow ==
    [][\A ip \in ClientIPs :
          (Called("checkLimit") /\ resp'.arg.ip = ip)
          => LET k == WindowCount(ip) IN
             IF k < 10
             THEN /\ resp'.out.allowed
                  /\ resp'.out.remaining = 9 - k
                  /\ limiter'.store[ip].count = k + 1
                  /\ k > 0 => limiter'.store[ip].resetTime
                                = limiter.store[ip].resetTime
             ELSE /\ ~resp'.out.allowed
                  /\ resp'.out.remaining = 0
                  /\ resp'.out.retryAfter >= 1
                  /\ resp'.out.resetTime = limiter.store[ip].resetTime
                  /\ limiter'.store[ip] = limiter.store[ip]]_vars

\* a call was denied: the address's record stands at ten
C11_Witness ==
    /\ resp.op = "checkLimit"
    /\ ~resp.out.allowed
    /\ resp.out.retryAfter = 1
    /\ limiter.store[resp.arg.ip].count = maxRequests

\* C12: the first checkLimit call of an address at a time at or after the
\* resetTime of its record starts a new window: it is allowed, remaining is
\* 9 and resetTime is the time of the call plus 300000 ms, whether the old
\* window was used up or not and whether or not a cleanup has removed the
\* old record.
C12_NewWindowAfterReset ==
    [][\A ip \in ClientIPs :
          (/\ Called("checkLimit")
           /\ resp'.arg.ip = ip
           /\ limiter.store[ip] # NoRecord
           /\ now >= limiter.store[ip].resetTime)
          => (/\ resp'.out.allowed
              /\ resp'.out.remaining = 9
              /\ resp'.out.resetTime = now + 300000
              /\ limiter'.store[ip] = [count |-> 1,
                                       resetTime |-> now + 300000])]_vars

\* a used-up window was over exactly at the time of the call that was
\* allowed, and the call ran the cleanup
C12_Witness ==
    /\ resp.op = "checkLimit"
    /\ resp.arg.record.count = maxRequests
    /\ resp.arg.at = resp.arg.record.resetTime
    /\ resp.out.allowed
    /\ limiter.lastCleanup = resp.arg.at

----------------------------------------------------------------------------
(* Properties of the submission endpoint behind the rate limiter (PostSpec) *)

PostOps == {"POST", "POST new", "POST retry", "POST autofix"}

\* the step is a request to the rate-limited POST /api/jobs
Posted == resp' # resp /\ resp'.op \in PostOps

\* C13: a POST that the rate limiter denies is answered with 429, the
\* retryAfter of the limiter in the body and a Retry-After header, and does
\* nothing else: no job is created, the prompt cache is neither read nor
\* written and no pipeline is started.
C13_DeniedPostDoesNothing ==
    [][(Posted /\ WindowCount(PostIP) >= maxRequests)
        => (/\ resp'.http = 429
            /\ resp'.out = CeilSeconds(limiter.store[PostIP].resetTime - now)
            /\ resp'.out >= 1
            /\ "Retry-After" \in resp'.headers
            /\ UNCHANGED <<jobs, cache, pipe, limiter, hook, localStorage, mongo>>)]_vars

\* a request was denied while jobs and pipelines existed
C13_Witness ==
    /\ resp.op = "POST"
    /\ resp.http = 429
    /\ Len(jobs) > 0
    /\ limiter.store[PostIP].count = maxRequests

\* C14: every response of POST /api/jobs that is produced after the
\* rate-limit check carries the headers X-RateLimit-Limit,
\* X-RateLimit-Remaining and X-RateLimit-Reset.
C14_EveryPostResponseHasHeaders ==
    [][Posted => RateLimitHeaders \subseteq resp'.headers]_vars

----------------------------------------------------------------------------
(* Properties of the prompt cache (CacheSpec) *)

\* the jobs of CacheJobs that are done and have output
Cacheable(id) ==
    \E job \in CacheJobs : job.id = id /\ job.status = "done" /\ HasOutput(job)

\* the trimmed prompt and the style a call names
NamedBy(key) == <<trim(key[1]), key[2]>>

\* an entry stored for the trimmed prompt and the style of the key
StoredFor(c, key) ==
    \E i \in 1..Len(c) : <<c[i].prompt, c[i].stylePreset>> = NamedBy(key)

\* C15: after setCachedJob(P, S, job) with a done job that has output, a
\* getCachedJob(P, S) at once returns a done job with output, never no
\* result; for a key whose trimmed prompt or style differs, getCachedJob
\* returns what it returned before the call, and no result when no entry
\* is stored for that key.
C15_SetThenGetReturnsJob ==
    [][\A key \in CacheKeys :
          (Called("setCachedJob") /\ resp'.arg = key /\ Cacheable(resp'.id))
          => /\ LET got == getCachedJob(cache', key[1], key[2], now)
                IN  got # NoJob /\ got.status = "done" /\ HasOutput(got)
             /\ \A other \in CacheKeys :
                  NamedBy(other) # NamedBy(key)
                  => /\ getCachedJob(cache', other[1], other[2], now)
                          = getCachedJob(cache, other[1], other[2], now)
                     /\ ~StoredFor(cache', other)
                          => getCachedJob(cache', other[1], other[2], now)
                               = NoJob]_vars

\* the position of the entry under the hash of the key, 0 for none
EntryOf(c, key) ==
    LET at == Cached(c, generateHash(key[1], key[2]))
    IN  IF at = {} THEN 0 ELSE CHOOSE i \in at : TRUE

\* C16: getCachedJob returns the job of an entry, and isCached answers
\* true, while now - cachedAt is at most 30 days; the first of the two
\* calls made later than that returns no result (false) and removes the
\* entry; a hit leaves cachedAt as it is.
C16_EntryExpiresAfterThirtyDays ==
    [][\A key \in CacheKeys :
          LET i == EntryOf(cache, key)
              k == EntryOf(cache', key)
          IN  (/\ resp'.op \in {"getCachedJob", "isCached"}
               /\ resp' # resp
               /\ resp'.arg = key
               /\ i # 0)
              => IF now - cache[i].cachedAt <= CACHE_DURATION_MS
                 THEN /\ resp'.op = "getCachedJob" => resp'.out = cache[i].job
                      /\ resp'.op = "isCached" => resp'.out = TRUE
                      /\ k # 0
                      /\ cache'[k].cachedAt = cache[i].cachedAt
                      /\ cache'[k].job = cache[i].job
                 ELSE /\ resp'.op = "getCachedJob" => resp'.out = NoJob
                      /\ resp'.op = "isCached" => resp'.out = FALSE
                      /\ k = 0]_vars

\* an entry was hit exactly 30 days after it was cached
C16_Witness ==
    /\ resp.op = "getCachedJob"
    /\ resp.out # NoJob
    /\ EntryOf(cache, resp.arg) # 0
    /\ cache[EntryOf(cache, resp.arg)].hitCount = 1
    /\ now - cache[EntryOf(cache, resp.arg)].cachedAt = CACHE_DURATION_MS

\* C18: setCachedJob leaves the whole cache as it is when the job is not
\* done, has no output, or an entry exists under the hash; so every entry
\* holds a done job with output, and an entry keeps the job it was first
\* written with for as long as it stays in the cache.
C18_SetIsNoOpUnlessNewDoneJob ==
    [][/\ \A key \in CacheKeys :
            (/\ Called("setCachedJob")
             /\ resp'.arg = key
             /\ (~Cacheable(resp'.id) \/ EntryOf(cache, key) # 0))
            => cache' = cache
       /\ \A k \in 1..Len(cache') :
            /\ cache'[k].job.status = "done"
            /\ HasOutput(cache'[k].job)
            /\ \A i \in 1..Len(cache) :
                 cache[i].hash = cache'[k].hash => cache'[k].job = cache[i].job]_vars

\* a second done job was written under a hash that had an entry, blanks
\* around the prompt, and the entry holds the first
C18_Witness ==
    /\ resp.op = "setCachedJob"
    /\ resp.id = 102
    /\ resp.arg[1] # trim(resp.arg[1])
    /\ EntryOf(cache, resp.arg) # 0
    /\ cache[EntryOf(cache, resp.arg)].jobId = 101

----------------------------------------------------------------------------
(* Properties of the full prompt cache (FullCacheSpec) *)

\* C17: the cache never holds more than 1000 entries: a setCachedJob that
\* inserts a new key into a cache of 1000 entries evicts one entry, also
\* when it is called in the clock millisecond in which the entries in the
\* cache were cached.
C17_AtMostThousandEntries == Len(cache) <= MAX_CACHE_SIZE

----------------------------------------------------------------------------
(* Properties of the submission endpoint over the cache (HitSpec) *)

\* the key of a submission with the prompt and the style of the model
SubmitKey == << <<"p">>, <<"Classic">> >>

\* the cache holds an entry for the submission's key that has not expired
FreshEntry ==
    /\ EntryOf(cache, SubmitKey) # 0
    /\ now - cache[EntryOf(cache, SubmitKey)].cachedAt <= CACHE_DURATION_MS

\* C19: a submission with prompt and style alone that hits the cache
\* creates a job document of its own id with status done, progress 100,
\* isCacheHit, cachedFromJobId the id of the cached job, attemptNumber 1 and
\* the cached output, and starts no pipeline; a submission with parentJobId
\* or autoFixJobId does not touch the cache and creates no cache-hit job.
C19_CacheHitCreatesDoneJob ==
    [][/\ (Called("POST new") /\ resp'.http = 201 /\ FreshEntry)
          => LET cachedJob == cache[EntryOf(cache, SubmitKey)].job
                 id == Len(jobs) + 1
             IN  /\ Len(jobs') = id
                 /\ resp'.id = id
                 /\ id # cachedJob.id
                 /\ jobs'[id].status = "done"
                 /\ jobs'[id].progress = 100
                 /\ jobs'[id].isCacheHit
                 /\ jobs'[id].cachedFromJobId = cachedJob.id
                 /\ jobs'[id].attemptNumber = 1
                 /\ jobs'[id].code = cachedJob.code
                 /\ jobs'[id].videoUrl = cachedJob.videoUrl
                 /\ pipe'[id].kind = "none"
       /\ (Called("POST retry") \/ Called("POST autofix"))
          => /\ cache' = cache
             /\ \A i \in Ids(jobs') \ Ids(jobs) : ~jobs'[i].isCacheHit]_vars

\* a submission was answered from the cache with the job cached for it
C19_Witness ==
    /\ resp.op = "POST new"
    /\ resp.out = "done"
    /\ jobs[resp.id].isCacheHit
    /\ jobs[resp.id].cachedFromJobId = 102
    /\ jobs[resp.id].videoUrl = "video"
    /\ pipe[resp.id].kind = "none"

----------------------------------------------------------------------------
(* Properties of the stored output (RepoSpec) *)

\* C20: in every reachable state a job document whose output.videoUrl is
\* set has status done, however the writes of the pipeline and the failJob
\* writes of the timeout detection interleave.
C20_VideoUrlOnlyOnDoneJob ==
    \A i \in Ids(jobs) : jobs[i].videoUrl # Undef => jobs[i].status = "done"

----------------------------------------------------------------------------
(* Properties of the documents the pipelines leave (Spec) *)

\* C21: every job document with status done has an output.videoUrl and a
\* stored output.code: no pipeline completes a job whose generated code was
\* not stored.
C21_DoneJobHasVideoAndCode ==
    \A i \in Ids(jobs) :
       jobs[i].status = "done"
       => (jobs[i].videoUrl # Undef /\ jobs[i].code.present)

\* a pipeline has completed a job, which holds its code and its video
C21_Witness ==
    \E i \in Ids(jobs) :
       /\ jobs[i].status = "done"
       /\ pipe[i].pc = "ended"
       /\ jobs[i].code = GoodCode
       /\ jobs[i].videoUrl = "video"

ErrorTypes ==
    {"validation", "runtime_error", "timeout", "network_error", "api_error",
     "unknown"}

\* C22: every job document with status failed has an error whose type is
\* one of validation, runtime_error, timeout, network_error, api_error and
\* unknown, on every failure path of the pipelines and the status endpoint.
C22_FailedJobHasErrorType ==
    \A i \in Ids(jobs) : jobs[i].status = "failed" => jobs[i].error.type \in ErrorTypes

----------------------------------------------------------------------------
(* Properties of the timeout detector (DetectSpec) *)

\* the phase timestamp and the threshold of a status, UndefN for a status
\* without a phase
PhaseStart(job) ==
    IF job.status = "queued" THEN job.queuedAt
    ELSE IF job.status = "generating_code" THEN job.codeGenerationStartedAt
    ELSE IF job.status = "rendering" THEN job.renderingStartedAt
    ELSE UndefN

PhaseLimit(job) ==
    IF job.status = "queued" THEN 30000
    ELSE IF job.status = "generating_code" THEN 180000
    ELSE 90000

\* C23: checkForTimeout reports a timeout iff the status is queued,
\* generating_code or rendering, the timestamp of that phase is present and
\* now minus the timestamp is above 30000, 180000 or 90000 ms; the stage is
\* code_generation for queued and generating_code and rendering for
\* rendering, the type is timeout; a done or failed job never times out.
C23_TimeoutIffPhaseOverdue ==
    resp.op = "checkForTimeout"
    => LET job == resp.arg.job
           result == resp.out
       IN  /\ result.isTimedOut
                <=> (/\ job.status \in {"queued", "generating_code", "rendering"}
                     /\ PhaseStart(job) # UndefN
                     /\ resp.arg.at - PhaseStart(job) > PhaseLimit(job))
           /\ result.isTimedOut
                => (/\ result.type = "timeout"
                    /\ result.stage = IF job.status = "rendering"
                                      THEN "rendering" ELSE "code_generation")
           /\ job.status \in {"done", "failed"} => ~result.isTimedOut

\* a job that entered rendering 90001 ms before the call is timed out
C23_Witness ==
    /\ resp.op = "checkForTimeout"
    /\ resp.arg.job.status = "rendering"
    /\ resp.arg.at - resp.arg.job.renderingStartedAt = 90001
    /\ resp.out.isTimedOut
    /\ resp.out.stage = "rendering"

----------------------------------------------------------------------------
(* Properties of the status endpoint (PollSpec) *)

\* the phase of the job the detector is given is over its threshold at t
Overdue(job, t) ==
    /\ job.status \in {"queued", "generating_code", "rendering"}
    /\ PhaseStart(job) # UndefN
    /\ t - PhaseStart(job) > PhaseLimit(job)

\* C24: GET /api/jobs/{id} writes nothing to the job store when the id is
\* unknown (404), when the job is done or failed, and when the job it read
\* is not over a threshold: the documents are as before and the returned
\* job is the stored one.
C24_GetWithoutTimeoutWritesNothing ==
    [][\A j \in JobIds :
          (Called("GET") /\ resp'.id = j)
          => LET job == findJobById(jobs, j)
             IN  /\ j \notin Ids(jobs) => (resp'.http = 404 /\ jobs' = jobs)
                 /\ (/\ j \in Ids(jobs)
                     /\ (job.status \in {"done", "failed"} \/ ~Overdue(job, now)))
                    => (/\ jobs' = jobs
                        /\ resp'.http = 200
                        /\ resp'.out = jobs[j].status)]_vars

\* a GET was served for a job that a pipeline had failed or completed
C24_Witness ==
    /\ resp.op = "GET"
    /\ resp.http = 200
    /\ resp.id \in Ids(jobs)
    /\ jobs[resp.id].status \in {"done", "failed"}
    /\ resp.out = jobs[resp.id].status
    /\ pipe[resp.id].pc = "ended"

----------------------------------------------------------------------------
(* HookSpec: the polling hook of one result view, the browser's timers and  *)
(* its fetches of GET /api/jobs/{id}, next to two jobs the server advances, *)
(* one of them queued and one rendering when the view opens.               *)
(* A change of the jobId prop re-creates fetchJob and so runs the effect's  *)
(* cleanup and the effect again in one commit.                              *)

POLLING_INTERVAL_MS == 3000

\* the time that passes in one step of the browser's clock
HookTickMs == POLLING_INTERVAL_MS \div 2

\* the job ids a result view is opened for
HookIds == 1..2

\* setInterval(fetchJob, POLLING_INTERVAL_MS) of the effect run number e
NewTimer(e, jobId) ==
    [id |-> e, jobId |-> jobId, effect |-> e, remaining |-> POLLING_INTERVAL_MS]

\* clearInterval(id): a null or unknown id clears nothing
clearInterval(timers, id) == {t \in timers : t.id # id}

FreeSlots(h) == {n \in 1..MaxFetches : \A f \in h.fetches : f.n # n}

\* fetchJob up to its await: the closure holds the jobId of its render; the
\* request has no answer yet
startFetch(h, jobId, e) ==
    [h EXCEPT !.fetches = @ \cup
        {[n |-> CHOOSE n \in FreeSlots(h) : \A m \in FreeSlots(h) : n <= m,
          jobId |-> jobId, effect |-> e, answered |-> FALSE, answer |-> NoJob]}]

\* the effect's cleanup
useEffectCleanup(h) ==
    [h EXCEPT !.mountedRef = FALSE,
              !.timers = IF h.intervalRef # NoId
                         THEN clearInterval(@, h.intervalRef) ELSE @]

\* the effect's body for the render with jobId
useEffectBody(h, jobId) ==
    LET e == h.effect + 1
        h1 == startFetch([h EXCEPT !.mountedRef = TRUE, !.jobId = jobId,
                                   !.effect = e], jobId, e)
    IN  [h1 EXCEPT !.intervalRef = e,
                   !.timers = @ \cup {NewTimer(e, jobId)}]

stopsPolling_never(status) == FALSE

\* TERMINAL_JOB_STATES.includes(data.job.status)
stopsPolling(status) == status \in TERMINAL_JOB_STATES

\* fetchJob after its await, for a response with response.ok
fetchJobOk(h, job) ==
    LET h1 == IF h.mountedRef
              THEN [h EXCEPT !.job = job, !.error = Undef,
                             !.intervalRef =
                                 IF stopsPolling(job.status) THEN NoId ELSE @,
                             !.timers =
                                 IF stopsPolling(job.status) /\ h.intervalRef # NoId
                                 THEN clearInterval(@, h.intervalRef) ELSE @]
              ELSE h
    IN  IF h1.mountedRef THEN [h1 EXCEPT !.loading = FALSE] ELSE h1

\* fetchJob after its await, for a rejected fetch or a response without ok
fetchJobError(h, message) ==
    IF h.mountedRef
    THEN [h EXCEPT !.error = message, !.loading = FALSE]
    ELSE h

HookInit ==
    /\ jobs = createJob(createJob(<< >>,
                  [NewDoc("queued", "api") EXCEPT !.queuedAt = 0, !.attemptNumber = 1,
                       !.maxAttempts = 3, !.autoFixAttemptCount = 0]),
                  [NewDoc("rendering", "api") EXCEPT !.queuedAt = 0, !.attemptNumber = 1,
                       !.maxAttempts = 3, !.autoFixAttemptCount = 0])
    /\ pending = {}
    /\ resp = NoCall
    /\ pipe = NoPipes
    /\ now = 0
    /\ fs = FsIdle
    /\ svc = NoSvc
    /\ cache = NoCache
    /\ limiter = NoLimiter
    /\ hook = NoHook
    /\ localStorage = NoStorage
    /\ mongo = NoMongo

\* the first render of the result view and its effect
HookMount ==
    /\ hook.effect = 0
    /\ \E jobId \in HookIds : hook' = useEffectBody(hook, jobId)
    /\ UNCHANGED <<jobs, pending, resp, pipe, now, fs, svc, cache, limiter, localStorage, mongo>>

\* a render with another jobId: cleanup of the last effect, then the effect
HookRebind ==
    /\ hook.effect > 0
    /\ hook.mountedRef
    /\ hook.effect < MaxEffects
    /\ FreeSlots(hook) # {}
    /\ \E jobId \in HookIds \ {hook.jobId} : hook' = useEffectBody(useEffectCleanup(hook), jobId)
    /\ UNCHANGED <<jobs, pending, resp, pipe, now, fs, svc, cache, limiter, localStorage, mongo>>

\* the view is removed: cleanup of the last effect
HookUnmount ==
    /\ hook.effect > 0
    /\ hook.mountedRef
    /\ hook' = useEffectCleanup(hook)
    /\ UNCHANGED <<jobs, pending, resp, pipe, now, fs, svc, cache, limiter, localStorage, mongo>>

\* an interval is due: the browser calls the fetchJob it was created with
HookTimerFire ==
    /\ FreeSlots(hook) # {}
    /\ \E t \in hook.timers :
         /\ t.remaining = 0
         /\ hook' = [startFetch(hook, t.jobId, t.effect) EXCEPT
                        !.timers = (@ \ {t}) \cup
                            {[t EXCEPT !.remaining = POLLING_INTERVAL_MS]}]
    /\ UNCHANGED <<jobs, pending, resp, pipe, now, fs, svc, cache, limiter, localStorage, mongo>>

\* time passes for the intervals, none of them is late
HookTick ==
    /\ hook.timers # {}
    /\ \A t \in hook.timers : t.remaining >= HookTickMs
    /\ hook' = [hook EXCEPT !.timers =
                   {[t EXCEPT !.remaining = @ - HookTickMs] : t \in hook.timers}]
    /\ UNCHANGED <<jobs, pending, resp, pipe, now, fs, svc, cache, limiter, localStorage, mongo>>

\* GET /api/jobs/{id} reads the job and sends its answer: 200 with the job,
\* 404 for no job
HookRespond ==
    /\ \E f \in hook.fetches :
         /\ ~f.answered
         /\ hook' = [hook EXCEPT !.fetches = (@ \ {f}) \cup
                        {[f EXCEPT !.answered = TRUE,
                                   !.answer = findJobById(jobs, f.jobId)]}]
    /\ UNCHANGED <<jobs, pending, resp, pipe, now, fs, svc, cache, limiter, localStorage, mongo>>

\* the answer of a fetch arrives and fetchJob goes on after its await
HookResolve ==
    /\ \E f \in hook.fetches :
         LET job == f.answer
             h == [hook EXCEPT !.fetches = @ \ {f}]
         IN  /\ f.answered
             /\ hook' = IF job = NoJob
                         THEN fetchJobError(h, "Failed to fetch job: Not Found")
                         ELSE fetchJobOk(h, job)
    /\ UNCHANGED <<jobs, pending, resp, pipe, now, fs, svc, cache, limiter, localStorage, mongo>>

\* a fetch is rejected
HookReject ==
    /\ hook.rejected < MaxRejected
    /\ \E f \in hook.fetches :
         hook' = [fetchJobError([hook EXCEPT !.fetches = @ \ {f}], "Failed to fetch")
                     EXCEPT !.rejected = @ + 1]
    /\ UNCHANGED <<jobs, pending, resp, pipe, now, fs, svc, cache, limiter, localStorage, mongo>>

\* a pipeline of the server moves one of the jobs on
HookJobStep ==
    /\ \E id \in Ids(jobs) :
         \/ /\ jobs[id].status = "queued"
            /\ jobs' = updateJobStatusWrite(jobs, id, "generating_code", 25, Undef)
         \/ /\ jobs[id].status = "generating_code"
            /\ jobs' = updateJobStatusWrite(jobs, id, "rendering", 75, Undef)
         \/ /\ jobs[id].status = "rendering"
            /\ jobs' = completeJobWithVideo(jobs, id, "/videos/job.mp4")
         \/ /\ jobs[id].status \notin TERMINAL_JOB_STATES
            /\ jobs' = failJob(jobs, id, Undef, Undef, Undef)
    /\ UNCHANGED <<pending, resp, pipe, now, fs, svc, cache, limiter, hook, localStorage, mongo>>

HookNext ==
    \/ HookMount
    \/ HookRebind
    \/ HookUnmount
    \/ HookTimerFire
    \/ HookTick
    \/ HookRespond
    \/ HookResolve
    \/ HookReject
    \/ HookJobStep

\* the browser runs a due interval's callback, lets time pass and settles
\* every fetch; the server answers every request
HookSpec ==
    /\ HookInit
    /\ [][HookNext]_vars
    /\ WF_vars(HookTimerFire)
    /\ WF_vars(HookTick)
    /\ WF_vars(HookRespond)
    /\ WF_vars(HookResolve)

----------------------------------------------------------------------------
(* Properties of the polling hook (HookSpec) *)

\* the step settles the fetch f
Settled(f) ==
    /\ f \in hook.fetches
    /\ \A g \in hook'.fetches : g.n # f.n \/ g.effect # f.effect

\* the step settles f with a 200 response
SettledOk(f) ==
    /\ Settled(f)
    /\ hook'.rejected = hook.rejected
    /\ f.answer # NoJob

\* the step runs a due interval's callback
Fired == \E t \in hook.timers : t.remaining = 0 /\ hook'.fetches # hook.fetches

\* C25: when the mounted hook processes a response with status done or
\* failed, it clears its interval, and a fetch is driven by a timer only
\* while an interval is active, 3000 ms after the interval was set or last
\* fired; processing any other response or an error leaves the interval as
\* it is.  So once the job of the mounted hook is done or failed, polling
\* stops (or the view turns to another job).
C25_PollingStopsOnTerminalStatus ==
    /\ [][\A f \in hook.fetches :
            (Settled(f) /\ hook.mountedRef)
            => IF SettledOk(f) /\ f.answer.status \in {"done", "failed"}
               THEN hook'.timers = {} /\ hook'.intervalRef = NoId
               ELSE hook'.timers = hook.timers
                    /\ hook'.intervalRef = hook.intervalRef]_vars
    /\ [][(hook.timers # {} /\ hook'.timers = {})
            => \/ \E f \in hook.fetches :
                    /\ SettledOk(f)
                    /\ f.answer.status \in {"done", "failed"}
               \/ ~hook'.mountedRef]_vars
    /\ [](\A t \in hook.timers :
            t.remaining \in {0, HookTickMs, POLLING_INTERVAL_MS})
    /\ \A j \in HookIds :
         (/\ hook.mountedRef
          /\ hook.jobId = j
          /\ hook.timers # {}
          /\ jobs[j].status \in {"done", "failed"})
         ~> (hook.timers = {} \/ hook.jobId # j)

\* the mounted hook has shown a done or failed job and has no interval left,
\* after an interval of it had fired
C25_Witness ==
    /\ hook.mountedRef
    /\ hook.effect > 0
    /\ hook.job.id = hook.jobId
    /\ hook.job.status \in {"done", "failed"}
    /\ hook.timers = {}
    /\ hook.intervalRef = NoId
    /\ hook.rejected > 0

\* the effect that started the fetch f has been cleaned up
CleanedUp(f) == f.effect < hook.effect \/ ~hook.mountedRef

\* C26: a fetch settled after the cleanup of the effect that started it
\* changes none of job, error and loading; every active interval belongs to
\* the effect that is mounted; the job the hook takes from a response is the
\* job of its jobId.
C26_NoUpdateAfterCleanup ==
    /\ [][\A f \in hook.fetches :
            (Settled(f) /\ CleanedUp(f))
            => /\ hook'.job = hook.job
               /\ hook'.error = hook.error
               /\ hook'.loading = hook.loading]_vars
    /\ [](\A t \in hook.timers : t.effect = hook.effect /\ hook.mountedRef)
    /\ [][hook'.job # hook.job => hook'.job.id = hook'.jobId]_vars

----------------------------------------------------------------------------
(* The gallery cache of the browser: one localStorage item that holds a    *)
(* version and a list of entries, one per curated example.                  *)

CACHE_VERSION == "1.0"

GALLERY_CACHE_DURATION_MS == 24 * 60 * 60 * 1000

GALLERY_MAX_ENTRIES == 50

\* JSON.stringify of a store object, as localStorage keeps it
StoredCache(version, entries) ==
    [kind |-> "json", version |-> version, jobs |-> entries]

CachedGalleryJob(exampleId, prompt, stylePreset, job, t) ==
    [exampleId |-> exampleId, prompt |-> prompt, stylePreset |-> stylePreset,
     jobId |-> job.id, job |-> job, cachedAt |-> t]

\* cache.jobs.filter((c) => c.exampleId !== exampleId)
withoutExample(entries, exampleId) ==
    SelectSeq(entries, LAMBDA c : c.exampleId # exampleId)

\* cache.jobs.find((c) => c.exampleId === exampleId), as an index or 0
findExample(entries, exampleId) ==
    IF \E i \in 1..Len(entries) : entries[i].exampleId = exampleId
    THEN CHOOSE i \in 1..Len(entries) :
           /\ entries[i].exampleId = exampleId
           /\ \A k \in 1..(i - 1) : entries[k].exampleId # exampleId
    ELSE 0

versionMatches_always(version) == TRUE

\* cache.version === CACHE_VERSION
versionMatches(version) == version = CACHE_VERSION

galleryExpired_never(c, t) == FALSE

\* now - cached.cachedAt > CACHE_DURATION_MS
galleryExpired(c, t) == t - c.cachedAt > GALLERY_CACHE_DURATION_MS

\* galleryCache.getCachedJob: the job it returns (NoJob for null) and the
\* item it leaves; JSON.parse throws for an item that is not JSON
galleryGetCachedJob(store, exampleId, t) ==
    IF store.kind # "json"
    THEN [job |-> NoJob, store |-> store]
    ELSE IF ~versionMatches(store.version)
    THEN [job |-> NoJob, store |-> NoStorage]
    ELSE LET i == findExample(store.jobs, exampleId)
         IN  IF i = 0
             THEN [job |-> NoJob, store |-> store]
             ELSE IF galleryExpired(store.jobs[i], t)
             THEN [job |-> NoJob,
                   store |-> [store EXCEPT !.jobs = withoutExample(@, exampleId)]]
             ELSE [job |-> store.jobs[i].job, store |-> store]

lastEntries_first(entries) ==
    IF Len(entries) > GALLERY_MAX_ENTRIES
    THEN SubSeq(entries, 1, GALLERY_MAX_ENTRIES)
    ELSE entries

\* cache.jobs.slice(-50)
lastEntries(entries) ==
    IF Len(entries) > GALLERY_MAX_ENTRIES
    THEN SubSeq(entries, Len(entries) - GALLERY_MAX_ENTRIES + 1, Len(entries))
    ELSE entries

\* galleryCache.setCachedJob: the item it leaves
gallerySetCachedJob(store, exampleId, prompt, stylePreset, job, t) ==
    LET parsed == IF store.kind = "json" /\ versionMatches(store.version)
                  THEN store ELSE StoredCache(CACHE_VERSION, << >>)
    IN  [parsed EXCEPT !.jobs =
            lastEntries(Append(withoutExample(@, exampleId),
                CachedGalleryJob(exampleId, prompt, stylePreset, job, t)))]

\* galleryCache.clearCacheForExample: the item it leaves
clearCacheForExample(store, exampleId) ==
    IF store.kind # "json" \/ ~versionMatches(store.version)
    THEN store
    ELSE [store EXCEPT !.jobs = withoutExample(@, exampleId)]

\* the curated examples, their prompts shortened to the first letters
GALLERY_EXAMPLES ==
    {[id |-> "pythagorean-theorem", prompt |-> <<"C", "r">>,
      stylePreset |-> <<"3", "B", "1", "B">>],
     [id |-> "unit-circle", prompt |-> <<"A", "n">>,
      stylePreset |-> <<"3", "B", "1", "B">>]}

----------------------------------------------------------------------------
(* GalleryCacheSpec: the gallery cache's operations on the browser's item,  *)
(* the clock, and writes of the item by something else than this version    *)
(* of the cache (an earlier version of it, or the user).                    *)

GalleryInstants ==
    {0, 1, GALLERY_CACHE_DURATION_MS, GALLERY_CACHE_DURATION_MS + 1}

\* the jobs a response of the submission endpoint can hold
GalleryJobs ==
    {[findJobById(<<NewDoc("queued", "api")>>, 1) EXCEPT !.id = 101],
     [findJobById(<<[NewDoc("done", "api") EXCEPT !.videoUrl = "/videos/job.mp4",
                        !.code = [present |-> TRUE, valid |-> TRUE]]>>, 1)
         EXCEPT !.id = 102]}

GalleryCacheGet ==
    /\ \E example \in GALLERY_EXAMPLES :
         LET r == galleryGetCachedJob(localStorage, example.id, now) IN
         /\ localStorage' = r.store
         /\ resp' = Call("galleryCache.getCachedJob", NoId,
                         [exampleId |-> example.id, at |-> now], 0, r.job)
    /\ UNCHANGED <<jobs, pending, pipe, now, fs, svc, cache, limiter, hook, mongo>>

GalleryCacheSet ==
    /\ \E example \in GALLERY_EXAMPLES, job \in GalleryJobs :
         /\ localStorage' = gallerySetCachedJob(localStorage, example.id,
                                example.prompt, example.stylePreset, job, now)
         /\ resp' = Call("galleryCache.setCachedJob", job.id,
                         [exampleId |-> example.id, at |-> now], 0, Undef)
    /\ UNCHANGED <<jobs, pending, pipe, now, fs, svc, cache, limiter, hook, mongo>>

GalleryCacheClearForExample ==
    /\ \E example \in GALLERY_EXAMPLES :
         /\ localStorage' = clearCacheForExample(localStorage, example.id)
         /\ resp' = Call("galleryCache.clearCacheForExample", NoId,
                         [exampleId |-> example.id, at |-> now], 0, Undef)
    /\ UNCHANGED <<jobs, pending, pipe, now, fs, svc, cache, limiter, hook, mongo>>

\* the item is rewritten with another version, or with text that is not JSON
GalleryForeignWrite ==
    /\ localStorage.kind = "json"
    /\ \/ localStorage' = [localStorage EXCEPT !.version = "0.9"]
       \/ localStorage' = [NoStorage EXCEPT !.kind = "text"]
    /\ resp' = Call("localStorage.setItem", NoId, Undef, 0, Undef)
    /\ UNCHANGED <<jobs, pending, pipe, now, fs, svc, cache, limiter, hook, mongo>>

GalleryTick ==
    /\ \E t \in GalleryInstants : t > now /\ now' = t
    /\ UNCHANGED <<jobs, pending, resp, pipe, fs, svc, cache, limiter, hook, localStorage, mongo>>

GalleryCacheNext ==
    \/ GalleryCacheGet
    \/ GalleryCacheSet
    \/ GalleryCacheClearForExample
    \/ GalleryForeignWrite
    \/ GalleryTick

GalleryCacheSpec == RepoInit /\ [][GalleryCacheNext]_vars

----------------------------------------------------------------------------
(* Properties of the gallery cache (GalleryCacheSpec) *)

\* the store is one this version of the cache reads
Readable(store) == store.kind = "json" /\ store.version = "1.0"

\* the entries of the examples other than exampleId
Others(store, exampleId) ==
    SelectSeq(store.jobs, LAMBDA c : c.exampleId # exampleId)

\* C27: getCachedJob(exampleId) returns the entry's job only while
\* now - cachedAt <= 24 hours and then leaves the store as it is; for an
\* older entry it returns nothing and the store loses the entries of that
\* example and keeps all the others, in their order.
C27_EntryExpiresAfterOneDay ==
    [][\A example \in GALLERY_EXAMPLES :
          (/\ Called("galleryCache.getCachedJob")
           /\ resp'.arg.exampleId = example.id
           /\ Readable(localStorage)
           /\ \E i \in 1..Len(localStorage.jobs) :
                 localStorage.jobs[i].exampleId = example.id)
          => LET c == localStorage.jobs[findExample(localStorage.jobs, example.id)]
             IN  IF now - c.cachedAt <= 24 * 60 * 60 * 1000
                 THEN resp'.out = c.job /\ localStorage' = localStorage
                 ELSE /\ resp'.out = NoJob
                      /\ Readable(localStorage')
                      /\ localStorage'.jobs = Others(localStorage, example.id)]_vars

\* an entry older than a day was asked for and removed, another one stayed
C27_Witness ==
    /\ resp.op = "galleryCache.getCachedJob"
    /\ resp.out = NoJob
    /\ Readable(localStorage)
    /\ Len(localStorage.jobs) = 1
    /\ localStorage.jobs[1].exampleId # resp.arg.exampleId
    /\ localStorage.jobs[1].cachedAt = 0
    /\ resp.arg.at = GALLERY_CACHE_DURATION_MS + 1

\* C28: with a stored version other than "1.0", getCachedJob returns nothing
\* and removes the item, and setCachedJob leaves an item of version "1.0"
\* with the new entry only; an item that is not JSON reads as no entry and
\* is replaced in the same way by setCachedJob.
C28_VersionMismatchClearsStore ==
    [][/\ (/\ Called("galleryCache.getCachedJob")
           /\ localStorage.kind = "json"
           /\ localStorage.version # "1.0")
          => (resp'.out = NoJob /\ localStorage' = NoStorage)
       /\ (/\ Called("galleryCache.getCachedJob")
           /\ localStorage.kind = "text")
          => (resp'.out = NoJob /\ localStorage' = localStorage)
       /\ (/\ Called("galleryCache.setCachedJob")
           /\ ~Readable(localStorage))
          => (/\ Readable(localStorage')
              /\ Len(localStorage'.jobs) = 1
              /\ localStorage'.jobs[1].exampleId = resp'.arg.exampleId
              /\ localStorage'.jobs[1].jobId = resp'.id
              /\ localStorage'.jobs[1].cachedAt = now)]_vars

\* a read found another version and removed the item
C28_Witness ==
    /\ resp.op = "galleryCache.getCachedJob"
    /\ resp.out = NoJob
    /\ localStorage = NoStorage
    /\ mongo = NoMongo
    /\ now > 0

----------------------------------------------------------------------------
(* GallerySpec: the gallery page's click handler, the submission endpoint   *)
(* it calls, a submission through the earlier version of the route, the     *)
(* pipelines of the jobs, and the clock.                                    *)

\* the Job createJob returns: the data it was given, with the new id
createJobResult(id, doc) ==
    [documentToJob(id, doc) EXCEPT
        !.queuedAt = doc.queuedAt, !.attemptNumber = doc.attemptNumber,
        !.maxAttempts = doc.maxAttempts,
        !.autoFixAttemptCount = doc.autoFixAttemptCount]

\* GalleryPage.handleExampleClick
handleExampleClick(example) ==
    LET r == galleryGetCachedJob(localStorage, example.id, now) IN
    IF r.job # NoJob
    THEN /\ resp' = Call("router.push", r.job.id, example.id, 0, r.job.status)
         /\ localStorage' = r.store
         /\ UNCHANGED <<jobs, pending, pipe, now, fs, svc, cache, limiter, hook, mongo>>
    ELSE /\ SubmitNewWith(example.prompt, example.stylePreset)
         /\ localStorage' =
              IF resp'.http = 201
              THEN gallerySetCachedJob(r.store, example.id, example.prompt,
                       example.stylePreset,
                       createJobResult(resp'.id, jobs'[resp'.id]), now)
              ELSE r.store
         /\ UNCHANGED <<limiter, hook, mongo>>

GalleryClick == \E example \in GALLERY_EXAMPLES : handleExampleClick(example)

GalleryNext ==
    \/ GalleryClick
    \/ SubmitLegacy
    \/ \E j \in JobIds : PipeStep(j)
    \/ GalleryTick

GallerySpec == Init /\ [][GalleryNext]_vars

\* C29: every entry of the gallery cache holds a job whose status is done,
\* and a click answered from the gallery cache navigates to a done job.
C29_GalleryEntryHoldsDoneJob ==
    /\ \A i \in 1..Len(localStorage.jobs) :
          localStorage.jobs[i].job.status = "done"
    /\ resp.op = "router.push" => resp.out = "done"

----------------------------------------------------------------------------
(* PromptSpec: the submission endpoint for request bodies with prompts of   *)
(* all kinds, with the pipelines of the jobs it creates.                    *)

MAX_PROMPT_LENGTH == 1000

\* validatePrompt(prompt).isValid
validatePrompt(prompt) ==
    LET trimmedPrompt == trim(prompt) IN
    IF Len(trimmedPrompt) = 0 THEN FALSE
    ELSE IF Len(trimmedPrompt) > MAX_PROMPT_LENGTH THEN FALSE
    ELSE TRUE

\* the prompts of the request bodies: absent or empty, a word, blanks only,
\* and one character more than the limit
Prompts ==
    {<< >>, <<"p">>, <<" ", " ">>, [i \in 1..(MAX_PROMPT_LENGTH + 1) |-> "x"]}

PromptSubmit ==
    /\ \E prompt \in Prompts : SubmitNewWith(prompt, <<"Classic">>)
    /\ UNCHANGED <<limiter, hook, localStorage, mongo>>

PromptNext ==
    \/ PromptSubmit
    \/ SubmitLegacy
    \/ SubmitRetry
    \/ SubmitAutoFix
    \/ \E j \in JobIds : PipeStep(j)

PromptSpec == Init /\ [][PromptNext]_vars

\* C30: every job the submission endpoint has created has a prompt that
\* validatePrompt accepts: not empty after trimming and of at most 1000
\* characters.
C30_CreatedJobHasValidPrompt ==
    \A j \in Ids(jobs) :
       jobs[j].route = "api" => validatePrompt(jobs[j].prompt)

----------------------------------------------------------------------------
(* Further properties of the repository (RepoSpec) *)

\* C31: the error of a job that was failed for a timeout is not replaced by
\* a failJob that is applied afterwards.
C31_ErrorOfFailedJobIsKept ==
    [][(/\ jobs # << >>
        /\ jobs[1].status = "failed"
        /\ jobs[1].error.message = "timeout"
        /\ Called("failJob"))
       => jobs'[1].error = jobs[1].error]_vars

\* C32: updateJobStatus checks the transition and writes as one step: a
\* call never leaves another status than failed in a job that another
\* writer failed before the write.
C32_UpdateJobStatusIsAtomic ==
    [][(/\ jobs # << >>
        /\ jobs[1].status = "failed"
        /\ Called("updateJobStatus"))
       => jobs'[1].status = "failed"]_vars

----------------------------------------------------------------------------
(* Further properties of the pipelines (Spec) *)

\* the pipeline of job j moves from the await pc to another one
Leaves(j, pc) == j \in Ids(jobs) /\ pipe[j].pc = pc /\ pipe'[j].pc # pc

\* C33: a pipeline calls the renderer only for a job that it has moved to
\* rendering with code of a successful generation or repair stored; after a
\* failed generation it only fails the job, with stage code_generation and
\* no code stored; after a rejected transition it is in its catch block,
\* from where it only fails the job, and a pipeline that is over stays over.
C33_RendererOnlyAfterGenerationAndTransitions ==
    [][\A j \in JobIds :
         /\ Leaves(j, "render")
            => /\ jobs[j].status = "rendering"
               /\ pipe[j].gen.success
               /\ jobs[j].code = pipe[j].gen.code
         /\ Leaves(j, "generate")
            => pipe'[j].pc = IF pipe'[j].gen.success THEN "store" ELSE "failGen"
         /\ Leaves(j, "failGen")
            => /\ pipe'[j].pc \in {"ended", "catch"}
               /\ pipe'[j].pc = "ended"
                  => /\ jobs'[j].status = "failed"
                     /\ jobs'[j].error.stage = "code_generation"
                     /\ ~jobs'[j].code.present
         /\ Leaves(j, "status1")
            => \/ pipe'[j].pc = "catch" /\ jobs'[j].status = jobs[j].status
               \/ /\ pipe'[j].pc = "generate"
                  /\ jobs[j].status = "queued"
                  /\ jobs'[j].status \in {"generating_code", "generating"}
         /\ Leaves(j, "status2")
            => \/ pipe'[j].pc = "catch" /\ jobs'[j].status = jobs[j].status
               \/ /\ pipe'[j].pc = "reread"
                  /\ jobs'[j].status = "rendering"
         /\ Leaves(j, "catch") => pipe'[j].pc \in {"ended", "crashed"}
         /\ (j \in Ids(jobs) /\ pipe[j].pc \in {"ended", "crashed"})
            => pipe'[j].pc = pipe[j].pc]_vars

\* one pipeline is at the call of the renderer, with generated code stored and
\* the job in rendering, and another one is over after its first transition
\* was rejected
C33_Witness ==
    \E j, k \in Ids(jobs) :
       /\ pipe[j].pc = "render"
       /\ pipe[j].gen.success
       /\ jobs[j].status = "rendering"
       /\ pipe[k].kind \in {"normal", "autofix"}
       /\ pipe[k].pc = "ended"
       /\ jobs[k].status = "failed"
       /\ jobs[k].error.logs = InvalidTransition
       /\ ~jobs[k].code.present

----------------------------------------------------------------------------
(* Further properties of the renderer (RenderSpec) *)

\* C34: the container invocation settles once.  When the timer has fired the
\* call was settled as a timeout, whatever the close event carries; when
\* close or error came first the timer is cleared and the process is not
\* killed; exit code 0 settles the invocation with success, and a call that
\* returned after a non-zero exit reports docker_error.
C34_ContainerOutcomeSettledOnce ==
    /\ fs.timer = "fired" => fs.settled = "timeout"
    /\ fs.timer = "cleared" => fs.docker # "killed"
    /\ (fs.timer = "cleared" /\ fs.exit = "0") => fs.settled = "resolved"
    /\ (fs.pc = "returned" /\ fs.timer = "cleared" /\ fs.exit = "1")
       => (~fs.result.success /\ fs.result.type = "docker_error")

----------------------------------------------------------------------------
(* Further properties of the submission endpoint (Spec) *)

C37_AutoFixCountWithinBounds ==
    \A j \in Ids(jobs) :
       jobs[j].route = "api"
       => /\ jobs[j].autoFixAttemptCount \in 0..2
          /\ ~jobs[j].isAutoFixJob => jobs[j].autoFixAttemptCount = 0

----------------------------------------------------------------------------
(* DbSpec: getDatabase and getClient called any number of times in one      *)
(* process and the outcome of the connection attempts.  A promise is the    *)
(* number of the attempt that created it; mongo.settled[p] is pending,      *)
(* connected or failed.                                                     *)

cachedPromise_none(m) == NoId

\* the `cached` the call finds
cachedPromise(m) == m.cached

\* connectToDatabase: the promise it returns and the memo it leaves; nothing
\* is awaited between the test of `cached` and its assignment
connectToDatabase(m) ==
    IF cachedPromise(m) # NoId
    THEN [promise |-> cachedPromise(m), mongo |-> m]
    ELSE LET p == m.attempts + 1
         IN  [promise |-> p,
              mongo |-> [m EXCEPT !.attempts = p, !.cached = p, !.global = p,
                                  !.settled = Append(@, "pending")]]

\* getDatabase or getClient up to its await
DbCall ==
    /\ Len(mongo.calls) < MaxDbCalls
    /\ \E op \in {"getDatabase", "getClient"} :
         LET r == connectToDatabase(mongo)
         IN  mongo' = [r.mongo EXCEPT !.calls = Append(@,
                          [op |-> op, promise |-> r.promise,
                           concurrent |-> \E p \in 1..Len(mongo.settled) :
                                             mongo.settled[p] = "pending"])]
    /\ UNCHANGED <<jobs, pending, resp, pipe, now, fs, svc, cache, limiter, hook, localStorage>>

\* mongoClient.connect() and the ping succeed
DbConnected ==
    /\ \E p \in 1..Len(mongo.settled) :
         /\ mongo.settled[p] = "pending"
         /\ mongo' = [mongo EXCEPT !.settled[p] = "connected"]
    /\ UNCHANGED <<jobs, pending, resp, pipe, now, fs, svc, cache, limiter, hook, localStorage>>

\* mongoClient.connect() or the ping throws: the promise is rejected
DbFailed ==
    /\ \E p \in 1..Len(mongo.settled) :
         /\ mongo.settled[p] = "pending"
         /\ mongo' = [mongo EXCEPT !.settled[p] = "failed"]
    /\ UNCHANGED <<jobs, pending, resp, pipe, now, fs, svc, cache, limiter, hook, localStorage>>

DbNext == DbCall \/ DbConnected \/ DbFailed

DbSpec == RepoInit /\ [][DbNext]_vars

\* what the caller of call i gets once its await is over
DbOutcome(i) == mongo.settled[mongo.calls[i].promise]

\* C38: whatever the number and the timing of the getDatabase and getClient
\* calls, at most one connection attempt is made, every caller awaits the
\* same promise, and so all get the same connection or the same failure.
C38_OneConnectionAttempt ==
    /\ mongo.attempts <= 1
    /\ \A i, k \in 1..Len(mongo.calls) :
          /\ mongo.calls[i].promise = mongo.calls[k].promise
          /\ DbOutcome(i) = DbOutcome(k)

\* a call that started while the first attempt was pending got the connection
\* of that attempt, as did the first caller
C38_Witness ==
    /\ Len(mongo.calls) >= 3
    /\ mongo.calls[2].concurrent
    /\ ~mongo.calls[3].concurrent
    /\ mongo.calls[1].op # mongo.calls[2].op
    /\ DbOutcome(2) = "connected"
    /\ mongo.attempts = 1

----------------------------------------------------------------------------
(* The order of the answers of overlapping polls (HookSpec) *)

\* C39: once the job the hook shows is done or failed, no later answer makes
\* the hook show that job with a status that is not terminal.
C39_TerminalJobNeverReverts ==
    [][(/\ hook.job.id # NoId
        /\ hook.job.status \in TERMINAL_JOB_STATES
        /\ hook'.job.id = hook.job.id)
       => hook'.job.status \in TERMINAL_JOB_STATES]_vars

----------------------------------------------------------------------------
(* GalleryFullSpec: the gallery cache's setCachedJob on an item that holds  *)
(* one entry less than the most it keeps, for the example that has the      *)
(* oldest entry and for two examples that have none.                        *)

\* the id of the n-th example
GalleryExampleId(n) == ToString(n)

\* the item after setCachedJob was called at instant 0 for the examples
\* from + 1 .. to, one after the other
RECURSIVE galleryFill(_, _, _)
galleryFill(store, from, to) ==
    IF to <= from THEN store
    ELSE IF to = from + 1
    THEN gallerySetCachedJob(store, GalleryExampleId(to), <<"p">>, <<"Classic">>,
             CHOOSE job \in GalleryJobs : job.status = "done", 0)
    ELSE LET mid == (from + to) \div 2
             half == galleryFill(store, from, mid)
         IN  IF Len(half.jobs) >= Len(store.jobs)
             THEN galleryFill(half, mid, to) ELSE half

\* the examples setCachedJob is called for
GalleryFullExamples == {1, GALLERY_MAX_ENTRIES, GALLERY_MAX_ENTRIES + 1}

GalleryFullInit ==
    /\ RepoInit!1
    /\ pending = {}
    /\ resp = NoCall
    /\ pipe = NoPipes
    /\ now = 0
    /\ fs = FsIdle
    /\ svc = NoSvc
    /\ cache = NoCache
    /\ limiter = NoLimiter
    /\ hook = NoHook
    /\ localStorage = galleryFill(NoStorage, 0, GALLERY_MAX_ENTRIES - 1)
    /\ mongo = NoMongo

GalleryFullSet ==
    /\ \E n \in GalleryFullExamples, job \in GalleryJobs :
         /\ localStorage' = gallerySetCachedJob(localStorage, GalleryExampleId(n),
                                <<"p">>, <<"Classic">>, job, now)
         /\ resp' = Call("galleryCache.setCachedJob", job.id,
                         [exampleId |-> GalleryExampleId(n), at |-> now], 0, Undef)
    /\ UNCHANGED <<jobs, pending, pipe, now, fs, svc, cache, limiter, hook, mongo>>

GalleryFullNext == GalleryFullSet \/ GalleryTick

GalleryFullSpec == GalleryFullInit /\ [][GalleryFullNext]_vars

----------------------------------------------------------------------------
(* Properties of setCachedJob on a full item (GalleryFullSpec) *)

\* C40: after setCachedJob calls the item holds at most 50 entries and at
\* most one entry per example; a call for an example leaves its new entry
\* last and, before it, the entries of the other examples in their order,
\* without the oldest of them when there were 50.
C40_AtMostFiftyEntriesOnePerExample ==
    /\ [](/\ Len(localStorage.jobs) <= 50
          /\ \A i, k \in 1..Len(localStorage.jobs) :
                localStorage.jobs[i].exampleId = localStorage.jobs[k].exampleId
                => i = k)
    /\ [][Called("galleryCache.setCachedJob")
          => LET others == Others(localStorage, resp'.arg.exampleId)
                 new == localStorage'.jobs
                 drop == IF Len(others) >= 50 THEN Len(others) - 49 ELSE 0
             IN  /\ new # << >>
                 /\ new[Len(new)].exampleId = resp'.arg.exampleId
                 /\ new[Len(new)].jobId = resp'.id
                 /\ new[Len(new)].cachedAt = now
                 /\ SubSeq(new, 1, Len(new) - 1)
                      = SubSeq(others, drop + 1, Len(others))]_vars

\* the item holds 50 entries, the last one written for an example that had
\* none when the item was full, the two oldest entries gone
C40_Witness ==
    /\ Len(localStorage.jobs) = 50
    /\ localStorage.jobs[50].exampleId = "51"
    /\ localStorage.jobs[49].exampleId = "1"
    /\ localStorage.jobs[1].exampleId = "3"

====
